---- MODULE Spec2Model ----
(***************************************************************************)
(* Flintrock (src/flintrock.py): the cluster lifecycle orchestrator.       *)
(*                                                                         *)
(* One command-line process at a time runs launch, start, stop, destroy,   *)
(* describe or login against an EC2-like provider.  The provider changes   *)
(* VM states asynchronously, the per-node tasks of a fan-out run           *)
(* concurrently on the executor, and the user may interrupt the process at *)
(* any point.                                                              *)
(* One cluster name and one region are modelled.                           *)
(***************************************************************************)
EXTENDS Integers, Sequences, FiniteSets, TLC

\* ------------------------------------------------------------------ bounds
\* largest --num-slaves explored
MaxSlaves == 1

\* The instance ids of the provider: enough for one reservation of the largest
\* size.  An id names a listed instance; the id of an instance the provider no
\* longer lists stands for a new instance when run_instances takes it again.
MaxId == MaxSlaves + 1

\* most connection attempts of one get_ssh_client call explored
MaxAttempts == 4

\* most handles given to one get_cluster_state_ec2 call
MaxMembers == 3

\* ------------------------------------------------------------------- state
VARIABLES
    vms,            \* provider: instance id -> [state, role]; state "absent": not listed
    groups,         \* provider: names of the existing security groups
    rules,          \* provider: group name -> set of authorized rules
    cmd,            \* the command the CLI process runs ("idle": no process)
    pc,             \* position of the process' main thread
    args,           \* the command's options
    outcome,        \* how the process ended: [code, msg, err]
    out,            \* what the command printed about the cluster: [state, count]
    search_results, \* get_or_create_ec2_security_groups: groups found by the search
    rule_i,         \* get_or_create_ec2_security_groups: index of the next rule
    inst_i,         \* start/stop/destroy: index of the next handle of the loop over instances
    instances,      \* the instance handles the command holds (cached attributes)
    cluster_info,   \* the ClusterInfo record, once built
    tasks,          \* the fan-out's futures, one per handle: [pc, failed]
    module_i,       \* master bring-up: index of the module being brought up
    cm,             \* module index -> state of its configure_master
    hc,             \* module index -> state of its health_check
    master_ssh_client, \* the session of the master bring-up: "none", "open", "closed"
    trail,          \* the commands that succeeded one after the other: [step, num_slaves, master]
    ssh,            \* one call of get_ssh_client: [platform, pc, log, slept, err]
    agg,            \* one call of get_cluster_state_ec2: [instances, state]
    script,         \* one run of configure_master's script on the master
    launchers       \* launch processes running side by side: process -> its position and locals

vars == << vms, groups, rules, cmd, pc, args, outcome, out,
           search_results, rule_i, inst_i, instances, cluster_info, tasks,
           module_i, cm, hc, master_ssh_client, trail, ssh, agg, script, launchers >>

\* The variables of the command-line process and of the provider.
main == << vms, groups, rules, cmd, pc, args, outcome, out,
           search_results, rule_i, inst_i, instances, cluster_info, tasks,
           module_i, cm, hc, master_ssh_client >>

\* The variables the steps of a command leave alone.
aside == << trail, ssh, agg, script, launchers >>

provider == << vms, groups, rules >>
locals == << search_results, rule_i, inst_i, instances, cluster_info, tasks, module_i, cm, hc,
             master_ssh_client >>

\* ----------------------------------------------------------------- helpers
Min(S) == CHOOSE x \in S : \A y \in S : x <= y

RECURSIVE SortedSeq(_)
SortedSeq(S) == IF S = {} THEN << >> ELSE << Min(S) >> \o SortedSeq(S \ {Min(S)})

Range(s) == { s[i] : i \in DOMAIN s }

NoInfo == [built |-> FALSE, ssh_key_pair |-> "none", master_host |-> 0, slave_hosts |-> << >>]
NoOutcome == [code |-> -1, msg |-> "none", err |-> "none", task |-> 0]
NoOut == [state |-> "none", count |-> -1]
NoArgs == [num_slaves |-> 0, modules |-> << >>, assume_yes |-> TRUE, client_ip |-> 0]
NoTrail == [step |-> -1, num_slaves |-> 0, master |-> 0]
NoSSH == [platform |-> "none", pc |-> "none", log |-> << >>, slept |-> 0, err |-> "none"]
NoAgg == [instances |-> << >>, state |-> "none"]

NoScript == [pc |-> "none", slave_hosts |-> << >>, slaves_file |-> "unwritten",
             master |-> "down", slaves |-> "down", code |-> 0, log |-> << >>]

\* The launch processes that may run side by side.
Launchers == { 1, 2 }

NoLauncher == [pc |-> "none", num_slaves |-> 0, client_ip |-> 0, search_results |-> {},
               rule_i |-> 1, instances |-> << >>, err |-> "none"]
NoLaunchers == [p \in Launchers |-> NoLauncher]

\* ---------------------------------------------------------------- provider
\* The addresses the echo service may report for the client.
ClientIPs == {1, 2}

flintrock_group_name == "flintrock"
cluster_group_name == "flintrock-X"

\* public_dns_name of an instance: assigned while it runs, empty (0) otherwise;
\* distinct instances have distinct names.
PublicDns(id) == IF vms[id].state = "running" THEN id ELSE 0

\* The attributes a describe call returns for an instance.
Describe(id) == [id |-> id, state |-> vms[id].state, dns |-> PublicDns(id)]

\* connection.get_only_instances(filters={'instance.group-name': 'flintrock-' + name})
Listed == { i \in DOMAIN vms : vms[i].state # "absent" }
get_only_instances == SortedSeq(Listed)

\* instance.update(): re-read the attributes; an instance the provider no
\* longer lists leaves the handle as it is.
update(h) == IF h.id \in Listed THEN Describe(h.id) ELSE h

\* get_cluster_instances_ec2: the exception it raises, or "ok".
get_cluster_instances_ec2_result ==
    IF Listed = {} THEN "ClusterNotFound"
    ELSE IF \E i \in Listed : vms[i].role = "none" THEN "KeyError"
    ELSE IF ~ \E i \in Listed : vms[i].role = "master" THEN "IndexError"
    ELSE "ok"

\* get_cluster_instances_ec2: the master (first instance tagged master) and
\* the slaves (every instance not tagged master), when the result is "ok".
get_cluster_instances_ec2_master ==
    Min({ i \in Listed : vms[i].role = "master" })
get_cluster_instances_ec2_slaves ==
    SortedSeq({ i \in Listed : vms[i].role # "master" })

\* Variant: the state of the first handle is taken for the cluster's.
get_cluster_state_ec2_first(hs) == hs[1].state

\* get_cluster_state_ec2 over a sequence of handles
get_cluster_state_ec2(hs) ==
    LET instance_states == { hs[i].state : i \in DOMAIN hs }
    IN IF Cardinality(instance_states) = 1
       THEN CHOOSE s \in instance_states : TRUE
       ELSE "inconsistent"

\* The rule lists of get_or_create_ec2_security_groups.
client_rules(ip) ==
    << [ip_protocol |-> "tcp", from_port |-> 22,   to_port |-> 22,   src |-> << "cidr", ip, 32 >>],
       [ip_protocol |-> "tcp", from_port |-> 8080, to_port |-> 8081, src |-> << "cidr", ip, 32 >>],
       [ip_protocol |-> "tcp", from_port |-> 4040, to_port |-> 4040, src |-> << "cidr", ip, 32 >>] >>

cluster_rules ==
    << [ip_protocol |-> "icmp", from_port |-> -1, to_port |-> -1,    src |-> << "group", cluster_group_name >>],
       [ip_protocol |-> "tcp",  from_port |-> 0,  to_port |-> 65535, src |-> << "group", cluster_group_name >>],
       [ip_protocol |-> "udp",  from_port |-> 0,  to_port |-> 65535, src |-> << "group", cluster_group_name >>] >>

\* -------------------------------------------------------------------- Init
InitMain ==
    /\ vms = [i \in 1..MaxId |-> [state |-> "absent", role |-> "none"]]
    /\ groups = {}
    /\ rules = [g \in {flintrock_group_name, cluster_group_name} |-> {}]
    /\ cmd = "idle"
    /\ pc = "idle"
    /\ args = NoArgs
    /\ outcome = NoOutcome
    /\ out = NoOut
    /\ search_results = {}
    /\ rule_i = 1
    /\ inst_i = 1
    /\ instances = << >>
    /\ cluster_info = NoInfo
    /\ tasks = << >>
    /\ module_i = 1
    /\ cm = << >>
    /\ hc = << >>
    /\ master_ssh_client = "none"

Init ==
    /\ InitMain
    /\ trail = NoTrail
    /\ ssh = NoSSH
    /\ agg = NoAgg
    /\ script = NoScript
    /\ launchers = NoLaunchers

\* The process ends: sys.exit(code) or an exception that leaves the command.
Exit(code, msg, err) ==
    /\ pc' = "exited"
    /\ outcome' = [code |-> code, msg |-> msg, err |-> err, task |-> 0]

\* An exception nobody handles leaves the command; the interpreter prints
\* the traceback and the process ends with status 1.
Raise(err) == Exit(1, "Traceback", err)

\* ------------------------------------------------------------------ launch
\* The positions of launch_ec2 inside its try block (lines 532-645).
LaunchTryPcs == { "run", "wait", "tag_master", "tag_slaves", "build_info", "fanout",
                  "join", "connect_master", "configure_master", "configure_master_end",
                  "health_check" }

\* The positions of launch_ec2 inside get_or_create_ec2_security_groups
\* (lines 377-495, called at lines 527-530).
SecurityGroupPcs == { "sg_search", "sg_create_base", "sg_auth_client", "sg_create_cluster",
                      "sg_auth_cluster" }

\* The launch command: --num-slaves, --install-spark/--no-install-spark.
launch ==
    /\ cmd = "idle"
    /\ \E n \in 0..MaxSlaves, install_spark \in BOOLEAN, ip \in ClientIPs :
          /\ args' = [num_slaves |-> n,
                      modules |-> IF install_spark THEN << "spark" >> ELSE << >>,
                      assume_yes |-> TRUE, client_ip |-> ip]
    /\ cmd' = "launch"
    /\ pc' = "check"
    /\ outcome' = NoOutcome
    /\ out' = NoOut
    /\ cm' = [k \in DOMAIN args'.modules |-> "none"]
    /\ hc' = [k \in DOMAIN args'.modules |-> "none"]
    /\ UNCHANGED << aside, master_ssh_client, provider, search_results, rule_i, inst_i,
                    instances, cluster_info, tasks, module_i >>

\* launch_ec2, lines 517-525: the existence check.
launch_ec2_check ==
    /\ cmd = "launch" /\ pc = "check"
    /\ LET r == get_cluster_instances_ec2_result
       IN IF r = "ClusterNotFound" THEN pc' = "sg_search" /\ UNCHANGED outcome
          ELSE IF r = "ok" THEN Exit(1, "Cluster already exists", "none")
          ELSE Raise(r)
    /\ UNCHANGED << aside, provider, cmd, args, out, locals >>

\* get_or_create_ec2_security_groups, lines 401-412: search both groups.
sg_search ==
    /\ cmd = "launch" /\ pc = "sg_search"
    /\ search_results' = groups \cap {flintrock_group_name, cluster_group_name}
    /\ pc' = "sg_create_base"
    /\ UNCHANGED << aside, master_ssh_client, provider, cmd, args, outcome, out, rule_i,
                    inst_i, instances, cluster_info, tasks, module_i, cm, hc >>

\* connection.create_security_group: a name that exists is rejected.
create_security_group(name, next_pc) ==
    IF name \in groups
    THEN Raise("InvalidGroup.Duplicate") /\ UNCHANGED groups
    ELSE groups' = groups \cup {name} /\ pc' = next_pc /\ UNCHANGED outcome

\* lines 414-418: create the base group when the search did not find it.
sg_create_base ==
    /\ cmd = "launch" /\ pc = "sg_create_base"
    /\ IF flintrock_group_name \notin search_results
       THEN create_security_group(flintrock_group_name, "sg_auth_client")
       ELSE pc' = "sg_auth_client" /\ UNCHANGED << groups, outcome >>
    /\ rule_i' = 1
    /\ UNCHANGED << aside, master_ssh_client, vms, rules, cmd, args, out, search_results,
                    inst_i, instances, cluster_info, tasks, module_i, cm, hc >>

\* group.authorize(rule) when the provider accepts it: the group gets the rule.
authorize(group, rule) ==
    rules' = [rules EXCEPT ![group] = @ \cup {rule}]

\* What the provider may answer to group.authorize(rule): "ok", or the code
\* of an EC2ResponseError.  A rule the group has is answered with
\* InvalidPermission.Duplicate; any request may fail for another reason.
AuthorizeResponses(group, rule) ==
    IF rule \in rules[group]
    THEN { "InvalidPermission.Duplicate", "RulesPerSecurityGroupLimitExceeded" }
    ELSE { "ok", "RulesPerSecurityGroupLimitExceeded" }

\* Variant: the handler re-raises every error.
Swallowed_none(error_code) == FALSE

\* Variant: the handler swallows every error.
Swallowed_all(error_code) == TRUE

\* lines 452-455 and 490-493: the handler re-raises unless the code is
\* InvalidPermission.Duplicate.
Swallowed(error_code) == error_code = "InvalidPermission.Duplicate"

\* One iteration of `for rule in rule_list: try: group.authorize(**rule)`
\* (lines 449-455, 487-493).
AuthorizeLoop(group, rule_list, next_pc) ==
    \E response \in AuthorizeResponses(group, rule_list[rule_i]) :
        /\ IF response = "ok" THEN authorize(group, rule_list[rule_i]) ELSE UNCHANGED rules
        /\ IF response = "ok" \/ Swallowed(response)
           THEN /\ IF rule_i < Len(rule_list)
                   THEN rule_i' = rule_i + 1 /\ pc' = pc
                   ELSE rule_i' = 1 /\ pc' = next_pc
                /\ UNCHANGED outcome
           ELSE Raise(response) /\ UNCHANGED rule_i

\* lines 449-455: one iteration of the loop over client_rules.
sg_auth_client ==
    /\ cmd = "launch" /\ pc = "sg_auth_client"
    /\ AuthorizeLoop(flintrock_group_name, client_rules(args.client_ip), "sg_create_cluster")
    /\ UNCHANGED << aside, master_ssh_client, vms, groups, cmd, args, out, search_results,
                    inst_i, instances, cluster_info, tasks, module_i, cm, hc >>

\* lines 458-462: create the cluster group when the search did not find it.
sg_create_cluster ==
    /\ cmd = "launch" /\ pc = "sg_create_cluster"
    /\ IF cluster_group_name \notin search_results
       THEN create_security_group(cluster_group_name, "sg_auth_cluster")
       ELSE pc' = "sg_auth_cluster" /\ UNCHANGED << groups, outcome >>
    /\ UNCHANGED << aside, master_ssh_client, vms, rules, cmd, args, out, search_results,
                    rule_i, inst_i, instances, cluster_info, tasks, module_i, cm, hc >>

\* lines 487-493: one iteration of the loop over cluster_rules.
sg_auth_cluster ==
    /\ cmd = "launch" /\ pc = "sg_auth_cluster"
    /\ AuthorizeLoop(cluster_group_name, cluster_rules, "run")
    /\ UNCHANGED << aside, master_ssh_client, vms, groups, cmd, args, out, search_results,
                    inst_i, instances, cluster_info, tasks, module_i, cm, hc >>

\* The ids run_instances gives to count new instances.
NewIds(count) ==
    LET free == SortedSeq({ i \in DOMAIN vms : vms[i].state = "absent" })
    IN [k \in 1..count |-> free[k]]

\* lines 537-549: connection.run_instances(min_count = max_count = num_slaves + 1);
\* the reservation's handles are pending and have no public name yet.
run_instances ==
    /\ cmd = "launch" /\ pc = "run"
    /\ Cardinality({ i \in DOMAIN vms : vms[i].state = "absent" }) >= args.num_slaves + 1
    /\ LET ids == NewIds(args.num_slaves + 1)
       IN /\ vms' = [i \in DOMAIN vms |->
                        IF i \in Range(ids) THEN [state |-> "pending", role |-> "none"]
                        ELSE vms[i]]
          /\ instances' = [k \in DOMAIN ids |-> [id |-> ids[k], state |-> "pending", dns |-> 0]]
    /\ pc' = "wait"
    /\ UNCHANGED << aside, master_ssh_client, groups, rules, cmd, args, outcome, out,
                    search_results, rule_i, inst_i, cluster_info, tasks, module_i, cm, hc >>

\* Variant: the scan looks at the first handle only.
NotYet_first_only(hs, awaited) == { k \in DOMAIN hs : k = 1 /\ hs[k].state # awaited }

\* The handles the scan of a wait loop stops at: those whose cached state is
\* not the awaited one.
NotYet(hs, awaited) == { k \in DOMAIN hs : hs[k].state # awaited }

\* Variant: the loop ends as soon as one handle is in the awaited state.
WaitLoop_any(awaited, next_pc) ==
    IF \E k \in DOMAIN instances : instances[k].state = awaited
    THEN pc' = next_pc /\ UNCHANGED instances
    ELSE LET k == Min(NotYet(instances, awaited))
         IN /\ instances' = [instances EXCEPT ![k] = update(@)]
            /\ pc' = pc

\* One pass of the wait loop (lines 555-564, 1112-1121, 1225-1235): the first
\* handle not in the awaited state is refreshed and the scan restarts; the
\* loop ends when the scan finds none.
WaitLoop(awaited, next_pc) ==
    IF NotYet(instances, awaited) = {}
    THEN pc' = next_pc /\ UNCHANGED instances
    ELSE LET k == Min(NotYet(instances, awaited))
         IN /\ instances' = [instances EXCEPT ![k] = update(@)]
            /\ pc' = pc

launch_ec2_wait ==
    /\ cmd = "launch" /\ pc = "wait"
    /\ WaitLoop("running", "tag_master")
    /\ UNCHANGED << aside, master_ssh_client, provider, cmd, args, outcome, out,
                    search_results, rule_i, inst_i, cluster_info, tasks, module_i, cm, hc >>

\* Variant: the tags go to every listed instance, whatever the ids.
create_tags_everywhere(resource_ids, role) ==
    vms' = [i \in DOMAIN vms |-> IF vms[i].state # "absent" THEN [vms[i] EXCEPT !.role = role]
                                 ELSE vms[i]]

\* connection.create_tags(resource_ids, tags = {'flintrock-role': role, ...})
create_tags(resource_ids, role) ==
    vms' = [i \in DOMAIN vms |-> IF i \in resource_ids THEN [vms[i] EXCEPT !.role = role]
                                 ELSE vms[i]]

\* lines 566-573: the first handle of the reservation is the master.
launch_ec2_tag_master ==
    /\ cmd = "launch" /\ pc = "tag_master"
    /\ create_tags({ Head(instances).id }, "master")
    /\ pc' = "tag_slaves"
    /\ UNCHANGED << aside, groups, rules, cmd, args, outcome, out, locals >>

\* What the provider may answer to create_tags: "ok", or the code of an
\* EC2ResponseError.  The source does not say what becomes of a request that
\* names no resource; the EC2 API requires at least one resource id.
CreateTagsResponses(resource_ids) ==
    IF resource_ids = {} THEN { "ok", "MissingParameter" } ELSE { "ok" }

\* lines 574-578: the other handles are the slaves (none with num_slaves = 0:
\* the request is sent with an empty resource_ids list).
launch_ec2_tag_slaves ==
    /\ cmd = "launch" /\ pc = "tag_slaves"
    /\ LET resource_ids == { h.id : h \in Range(Tail(instances)) }
       IN \E response \in CreateTagsResponses(resource_ids) :
             IF response = "ok"
             THEN create_tags(resource_ids, "slave") /\ pc' = "build_info" /\ UNCHANGED outcome
             ELSE Raise(response) /\ UNCHANGED vms
    /\ UNCHANGED << aside, groups, rules, cmd, args, out, locals >>

\* Variant: the slave hosts are taken from all the handles, master included.
launch_ec2_build_info_all_handles ==
    /\ cmd = "launch" /\ pc = "build_info"
    /\ cluster_info' = [built |-> TRUE,
                        ssh_key_pair |-> "generated",
                        master_host |-> Head(instances).dns,
                        slave_hosts |-> [k \in DOMAIN instances |-> instances[k].dns]]
    /\ pc' = "fanout"
    /\ UNCHANGED << aside, master_ssh_client, provider, cmd, args, outcome, out,
                    search_results, rule_i, inst_i, instances, tasks, module_i, cm, hc >>

\* lines 580-586: ClusterInfo from the handles' cached public names, with a
\* freshly generated key pair.
launch_ec2_build_info ==
    /\ cmd = "launch" /\ pc = "build_info"
    /\ cluster_info' = [built |-> TRUE,
                        ssh_key_pair |-> "generated",
                        master_host |-> Head(instances).dns,
                        slave_hosts |-> [k \in 1..(Len(instances) - 1) |-> instances[k + 1].dns]]
    /\ pc' = "fanout"
    /\ UNCHANGED << aside, master_ssh_client, provider, cmd, args, outcome, out,
                    search_results, rule_i, inst_i, instances, tasks, module_i, cm, hc >>

\* ----------------------------------------------------------------- fan-out
\* session: the task's SSH session, "none" until get_ssh_client returned it,
\* "open" inside the with block, "closed" once the block was left.
NewTask == [pc |-> "connect", failed |-> FALSE, m |-> 1, session |-> "none"]

\* Variant: leaving the with block leaves the session as it is.
leave_with_leaked(session) == session

\* `with client:` (lines 719, 623, 1086, 1168): paramiko's SSHClient closes the
\* session when the block is left, normally or by an exception.
leave_with(session) == IF session = "open" THEN "closed" ELSE session

Terminal(t) == t.failed \/ t.pc = "done"

AllDone == \A k \in DOMAIN tasks : Terminal(tasks[k])

\* lines 589-606: one executor task per handle of the reservation.
launch_ec2_fanout ==
    /\ cmd = "launch" /\ pc = "fanout"
    /\ tasks' = [k \in DOMAIN instances |-> NewTask]
    /\ pc' = "join"
    /\ UNCHANGED << aside, master_ssh_client, provider, cmd, args, outcome, out,
                    search_results, rule_i, inst_i, instances, cluster_info, module_i, cm,
                    hc >>

\* The position after the per-module part of a task at module index m.
AfterModules(t, modules) ==
    IF t.m <= Len(modules) THEN [t EXCEPT !.pc = "install"]
    ELSE [t EXCEPT !.pc = "done", !.session = leave_with(@)]

\* Variant: the key pair is not installed.
provision_ec2_node_next_no_keys(t, modules, java_home) ==
    CASE t.pc = "connect"      -> [t EXCEPT !.pc = "java", !.session = "open"]
      [] t.pc = "keys"         -> [t EXCEPT !.pc = "java"]
      [] t.pc = "java"         -> IF java_home THEN AfterModules(t, modules)
                                  ELSE [t EXCEPT !.pc = "java_install"]
      [] t.pc = "java_install" -> AfterModules(t, modules)
      [] t.pc = "install"      -> [t EXCEPT !.pc = "configure"]
      [] t.pc = "configure"    -> AfterModules([t EXCEPT !.m = @ + 1], modules)

\* provision_ec2_node (lines 713-759): the task after its current step
\* succeeded; java_home is what the node answered to echo "$JAVA_HOME".
provision_ec2_node_next(t, modules, java_home) ==
    CASE t.pc = "connect"      -> [t EXCEPT !.pc = "keys", !.session = "open"]
      [] t.pc = "keys"         -> [t EXCEPT !.pc = "java"]
      [] t.pc = "java"         -> IF java_home THEN AfterModules(t, modules)
                                  ELSE [t EXCEPT !.pc = "java_install"]
      [] t.pc = "java_install" -> AfterModules(t, modules)
      [] t.pc = "install"      -> [t EXCEPT !.pc = "configure"]
      [] t.pc = "configure"    -> AfterModules([t EXCEPT !.m = @ + 1], modules)

\* A step of the task of node k succeeds.
provision_ec2_node(k) ==
    /\ cmd = "launch"
    /\ k \in DOMAIN tasks
    /\ ~ Terminal(tasks[k])
    /\ \E java_home \in BOOLEAN :
          tasks' = [tasks EXCEPT ![k] = provision_ec2_node_next(@, args.modules, java_home)]
    /\ UNCHANGED << aside, master_ssh_client, provider, cmd, pc, args, outcome, out,
                    search_results, rule_i, inst_i, instances, cluster_info, module_i, cm,
                    hc >>

\* The current step of the task of node k raises: get_ssh_client re-raises a
\* socket error other than refused (lines 685-687), ssh_check_output raises
\* on a non-zero exit status (lines 772-777).  The task ends there.
task_fails(k) ==
    /\ cmd \in { "launch", "start" }
    /\ k \in DOMAIN tasks
    /\ ~ Terminal(tasks[k])
    /\ tasks' = [tasks EXCEPT ![k].failed = TRUE, ![k].session = leave_with(@)]
    /\ UNCHANGED << aside, master_ssh_client, provider, cmd, pc, args, outcome, out,
                    search_results, rule_i, inst_i, instances, cluster_info, module_i, cm,
                    hc >>

\* Variant: asyncio.wait returning with return_when = FIRST_COMPLETED.
wait_returns_first_completed == \E k \in DOMAIN tasks : Terminal(tasks[k])

\* asyncio.wait(tasks) with the default return_when = ALL_COMPLETED.
wait_returns == AllDone

\* `done` is a set of futures: the orders in which `for future in done` may
\* visit the tasks.
DoneIterationOrders == Permutations(DOMAIN tasks)

\* Variant: the results are never looked at.
FirstFailure_ignored(order) == 0

\* Variant: the first future visited is taken for the failure, failed or not.
FirstFailure_unchecked(order) ==
    IF \E k \in DOMAIN tasks : tasks[k].failed THEN order[1] ELSE 0

\* for future in done: future.result() -- the task whose exception is raised:
\* the first failed one in the iteration order (0: none failed).
FirstFailure(order) ==
    LET failed == { k \in DOMAIN tasks : tasks[order[k]].failed }
    IN IF failed = {} THEN 0 ELSE order[Min(failed)]

\* lines 607-616 and 1154-1160: wait for the tasks, then collect the results.
CollectResults(next_pc) ==
    /\ wait_returns
    /\ \E order \in DoneIterationOrders :
          LET f == FirstFailure(order)
          IN IF f = 0
             THEN pc' = next_pc /\ UNCHANGED outcome
             ELSE /\ pc' = "exited"
                  /\ outcome' = [code |-> 1, msg |-> "Traceback", err |-> "task", task |-> f]

launch_ec2_join ==
    /\ cmd = "launch" /\ pc = "join"
    /\ CollectResults("connect_master")
    /\ UNCHANGED << aside, provider, cmd, args, out, locals >>

\* --------------------------------------------------------- master bring-up
\* lines 618-623: the session to the master; the module loop starts.
launch_ec2_connect_master ==
    /\ cmd = "launch" /\ pc = "connect_master"
    /\ module_i' = 1
    /\ \E connected \in BOOLEAN :
          IF ~ connected THEN Raise("get_ssh_client") /\ UNCHANGED master_ssh_client
          ELSE IF args.modules = << >>
          THEN master_ssh_client' = leave_with("open") /\ Exit(0, "ok", "none")
          ELSE master_ssh_client' = "open" /\ pc' = "configure_master"
               /\ UNCHANGED outcome
    /\ UNCHANGED << aside, provider, cmd, args, out, search_results, rule_i, inst_i, instances,
                    cluster_info, tasks, cm, hc >>

\* Variant: the health check is run without configure_master.
launch_ec2_configure_master_skipped ==
    /\ cmd = "launch" /\ pc = "configure_master"
    /\ pc' = "health_check"
    /\ UNCHANGED << aside, provider, cmd, args, outcome, out, locals >>

\* lines 625-627: module.configure_master is called.
launch_ec2_configure_master ==
    /\ cmd = "launch" /\ pc = "configure_master"
    /\ cm' = [cm EXCEPT ![module_i] = "running"]
    /\ pc' = "configure_master_end"
    /\ UNCHANGED << aside, master_ssh_client, provider, cmd, args, outcome, out,
                    search_results, rule_i, inst_i, instances, cluster_info, tasks, module_i,
                    hc >>

\* Spark.configure_master (lines 218-243) returns, or its script fails.
launch_ec2_configure_master_end ==
    /\ cmd = "launch" /\ pc = "configure_master_end"
    /\ \E ok \in BOOLEAN :
          IF ok
          THEN cm' = [cm EXCEPT ![module_i] = "done"] /\ pc' = "health_check"
               /\ UNCHANGED << outcome, master_ssh_client >>
          ELSE /\ cm' = [cm EXCEPT ![module_i] = "failed"]
               /\ master_ssh_client' = leave_with(master_ssh_client)
               /\ Raise("configure_master")
    /\ UNCHANGED << aside, provider, cmd, args, out, search_results, rule_i, inst_i, instances,
                    cluster_info, tasks, module_i, hc >>

\* lines 633-634: after the sleep, module.health_check (lines 248-275); then
\* the next module, or the end of launch_ec2.
launch_ec2_health_check ==
    /\ cmd = "launch" /\ pc = "health_check"
    /\ \E ok \in BOOLEAN :
          IF ok
          THEN /\ hc' = [hc EXCEPT ![module_i] = "ok"]
               /\ IF module_i < Len(args.modules)
                  THEN module_i' = module_i + 1 /\ pc' = "configure_master"
                       /\ UNCHANGED << outcome, master_ssh_client >>
                  ELSE /\ UNCHANGED module_i
                       /\ master_ssh_client' = leave_with(master_ssh_client)
                       /\ Exit(0, "ok", "none")
          ELSE /\ hc' = [hc EXCEPT ![module_i] = "failed"] /\ UNCHANGED module_i
               /\ master_ssh_client' = leave_with(master_ssh_client)
               /\ Raise("health_check")
    /\ UNCHANGED << aside, provider, cmd, args, out, search_results, rule_i, inst_i, instances,
                    cluster_info, tasks, cm >>

\* ------------------------------------------------- start, stop and terminate
\* The handles a lookup returns for the listed instances ids.
Handles(ids) == [k \in DOMAIN ids |-> Describe(ids[k])]

\* What the provider makes of a start, stop or terminate request for an
\* instance in state s: the new state, or "error" (IncorrectInstanceState).
StartInstance(s) ==
    CASE s = "stopped" -> "pending"
      [] s \in { "pending", "running" } -> s
      [] OTHER -> "error"

StopInstance(s) ==
    CASE s = "running" -> "stopping"
      [] s \in { "stopping", "stopped" } -> s
      [] OTHER -> "error"

TerminateInstance(s) ==
    CASE s \in { "shutting-down", "terminated" } -> s
      [] s = "absent" -> "error"
      [] OTHER -> "shutting-down"

\* Variant: the loop ends after the first instance.
LifecycleLoop_first_only(op, next_pc) ==
    LET id == instances[inst_i].id
        new == CASE op = "start" -> StartInstance(vms[id].state)
                 [] op = "stop" -> StopInstance(vms[id].state)
                 [] op = "terminate" -> TerminateInstance(vms[id].state)
    IN IF new = "error"
       THEN Raise("EC2ResponseError") /\ UNCHANGED << vms, inst_i >>
       ELSE /\ vms' = [vms EXCEPT ![id].state = new]
            /\ inst_i' = 1 /\ pc' = next_pc
            /\ UNCHANGED outcome

\* One iteration of `for instance in cluster_instances: instance.<op>()`:
\* the request returns at once and the provider begins the transition; a
\* rejected request raises.  The handle's cached attributes change only when
\* it is refreshed (instance.update()).
LifecycleLoop(op, next_pc) ==
    LET id == instances[inst_i].id
        new == CASE op = "start" -> StartInstance(vms[id].state)
                 [] op = "stop" -> StopInstance(vms[id].state)
                 [] op = "terminate" -> TerminateInstance(vms[id].state)
    IN IF new = "error"
       THEN Raise("EC2ResponseError") /\ UNCHANGED << vms, inst_i >>
       ELSE /\ vms' = [vms EXCEPT ![id].state = new]
            /\ IF inst_i < Len(instances)
               THEN inst_i' = inst_i + 1 /\ pc' = pc
               ELSE inst_i' = 1 /\ pc' = next_pc
            /\ UNCHANGED outcome

\* --------------------------------------------------------------------- start
start ==
    /\ cmd = "idle"
    /\ cmd' = "start"
    /\ pc' = "lookup"
    /\ args' = [NoArgs EXCEPT !.modules = << "spark" >>]
    /\ outcome' = NoOutcome
    /\ out' = NoOut
    /\ cm' = << "none" >>
    /\ hc' = << "none" >>
    /\ UNCHANGED << aside, master_ssh_client, provider, search_results, rule_i, inst_i,
                    instances, cluster_info, tasks, module_i >>

\* start_ec2, lines 1097-1107: the lookup; cluster_instances is the master
\* followed by the slaves.
start_ec2_lookup ==
    /\ cmd = "start" /\ pc = "lookup"
    /\ LET r == get_cluster_instances_ec2_result
       IN IF r = "ClusterNotFound"
          THEN Exit(0, "No such cluster", "none") /\ UNCHANGED instances
          ELSE IF r = "ok"
          THEN /\ instances' = Handles(<< get_cluster_instances_ec2_master >>
                                       \o get_cluster_instances_ec2_slaves)
               /\ pc' = "start_instances"
               /\ UNCHANGED outcome
          ELSE Raise(r) /\ UNCHANGED instances
    /\ inst_i' = 1
    /\ UNCHANGED << aside, master_ssh_client, provider, cmd, args, out, search_results, rule_i,
                    cluster_info, tasks, module_i, cm, hc >>

\* lines 1109-1110
start_ec2_start_instances ==
    /\ cmd = "start" /\ pc = "start_instances"
    /\ LifecycleLoop("start", "wait")
    /\ UNCHANGED << aside, master_ssh_client, groups, rules, cmd, args, out, search_results,
                    rule_i, instances, cluster_info, tasks, module_i, cm, hc >>

\* Variant: start_ec2 goes on without waiting for the instances to run.
start_ec2_wait_skipped ==
    /\ cmd = "start" /\ pc = "wait"
    /\ pc' = "build_info"
    /\ UNCHANGED << aside, provider, cmd, args, outcome, out, locals >>

\* lines 1112-1121
start_ec2_wait ==
    /\ cmd = "start" /\ pc = "wait"
    /\ WaitLoop("running", "build_info")
    /\ UNCHANGED << aside, master_ssh_client, provider, cmd, args, outcome, out,
                    search_results, rule_i, inst_i, cluster_info, tasks, module_i, cm, hc >>

\* lines 1123-1130: ClusterInfo without a key pair; the first handle is the
\* master, the others are the slaves.
start_ec2_build_info ==
    /\ cmd = "start" /\ pc = "build_info"
    /\ cluster_info' = [built |-> TRUE,
                        ssh_key_pair |-> "None",
                        master_host |-> Head(instances).dns,
                        slave_hosts |-> [k \in 1..(Len(instances) - 1) |-> instances[k + 1].dns]]
    /\ pc' = "fanout"
    /\ UNCHANGED << aside, master_ssh_client, provider, cmd, args, outcome, out,
                    search_results, rule_i, inst_i, instances, tasks, module_i, cm, hc >>

\* lines 1136-1153
start_ec2_fanout ==
    /\ cmd = "start" /\ pc = "fanout"
    /\ tasks' = [k \in DOMAIN instances |-> NewTask]
    /\ pc' = "join"
    /\ UNCHANGED << aside, master_ssh_client, provider, cmd, args, outcome, out,
                    search_results, rule_i, inst_i, instances, cluster_info, module_i, cm,
                    hc >>

\* Variant: the node's modules are installed again before they are configured.
start_ec2_node_next_reinstalling(t, modules) ==
    CASE t.pc = "connect"   -> IF t.m <= Len(modules)
                               THEN [t EXCEPT !.pc = "install", !.session = "open"]
                               ELSE [t EXCEPT !.pc = "done", !.session = "closed"]
      [] t.pc = "install"   -> [t EXCEPT !.pc = "configure"]
      [] t.pc = "configure" -> IF t.m < Len(modules) THEN [t EXCEPT !.m = @ + 1, !.pc = "install"]
                               ELSE [t EXCEPT !.m = @ + 1, !.pc = "done",
                                              !.session = leave_with(@)]

\* start_ec2_node (lines 1079-1089): the task after its current step succeeded.
start_ec2_node_next(t, modules) ==
    CASE t.pc = "connect"   -> IF t.m <= Len(modules)
                               THEN [t EXCEPT !.pc = "configure", !.session = "open"]
                               ELSE [t EXCEPT !.pc = "done", !.session = "closed"]
      [] t.pc = "configure" -> IF t.m < Len(modules) THEN [t EXCEPT !.m = @ + 1]
                               ELSE [t EXCEPT !.m = @ + 1, !.pc = "done",
                                              !.session = leave_with(@)]

start_ec2_node(k) ==
    /\ cmd = "start"
    /\ k \in DOMAIN tasks
    /\ ~ Terminal(tasks[k])
    /\ tasks' = [tasks EXCEPT ![k] = start_ec2_node_next(@, args.modules)]
    /\ UNCHANGED << aside, master_ssh_client, provider, cmd, pc, args, outcome, out,
                    search_results, rule_i, inst_i, instances, cluster_info, module_i, cm,
                    hc >>

\* lines 1154-1160
start_ec2_join ==
    /\ cmd = "start" /\ pc = "join"
    /\ CollectResults("connect_master")
    /\ UNCHANGED << aside, provider, cmd, args, out, locals >>

\* lines 1162-1167
start_ec2_connect_master ==
    /\ cmd = "start" /\ pc = "connect_master"
    /\ module_i' = 1
    /\ \E connected \in BOOLEAN :
          IF connected
          THEN master_ssh_client' = "open" /\ pc' = "configure_master" /\ UNCHANGED outcome
          ELSE Raise("get_ssh_client") /\ UNCHANGED master_ssh_client
    /\ UNCHANGED << aside, provider, cmd, args, out, search_results, rule_i, inst_i, instances,
                    cluster_info, tasks, cm, hc >>

\* lines 1168-1171: module.configure_master is called.
start_ec2_configure_master ==
    /\ cmd = "start" /\ pc = "configure_master"
    /\ cm' = [cm EXCEPT ![module_i] = "running"]
    /\ pc' = "configure_master_end"
    /\ UNCHANGED << aside, master_ssh_client, provider, cmd, args, outcome, out,
                    search_results, rule_i, inst_i, instances, cluster_info, tasks, module_i,
                    hc >>

\* configure_master returns or fails; after the last module the session is
\* closed and start_ec2 goes on to the health check.
start_ec2_configure_master_end ==
    /\ cmd = "start" /\ pc = "configure_master_end"
    /\ \E ok \in BOOLEAN :
          IF ok
          THEN /\ cm' = [cm EXCEPT ![module_i] = "done"]
               /\ IF module_i < Len(args.modules)
                  THEN /\ module_i' = module_i + 1 /\ pc' = "configure_master"
                       /\ UNCHANGED master_ssh_client
                  ELSE /\ UNCHANGED module_i /\ pc' = "health_check"
                       /\ master_ssh_client' = leave_with(master_ssh_client)
               /\ UNCHANGED outcome
          ELSE /\ cm' = [cm EXCEPT ![module_i] = "failed"] /\ UNCHANGED module_i
               /\ master_ssh_client' = leave_with(master_ssh_client)
               /\ Raise("configure_master")
    /\ UNCHANGED << aside, provider, cmd, args, out, search_results, rule_i, inst_i, instances,
                    cluster_info, tasks, hc >>

\* lines 1173-1175: after the sleep, spark.health_check.
start_ec2_health_check ==
    /\ cmd = "start" /\ pc = "health_check"
    /\ \E ok \in BOOLEAN :
          IF ok THEN hc' = << "ok" >> /\ Exit(0, "ok", "none")
          ELSE hc' = << "failed" >> /\ Raise("health_check")
    /\ UNCHANGED << aside, master_ssh_client, provider, cmd, args, out, search_results, rule_i,
                    inst_i, instances, cluster_info, tasks, module_i, cm >>

\* ---------------------------------------------------------- stop and destroy
\* print_cluster_info_ec2 (lines 913-915): the aggregated state and node count.
print_cluster_info_ec2(hs) == [state |-> get_cluster_state_ec2(hs), count |-> Len(hs)]

\* cli(obj={}) (line 1278) runs the command in click's standalone mode: a
\* KeyboardInterrupt that leaves the command, or an Abort raised by
\* click.confirm(abort=True), ends the process with "Aborted!" and status 1.
click_abort(exception) == Exit(1, "Aborted!", exception)

stop ==
    /\ cmd = "idle"
    /\ cmd' = "stop"
    /\ pc' = "lookup"
    /\ \E yes \in BOOLEAN : args' = [NoArgs EXCEPT !.assume_yes = yes]
    /\ outcome' = NoOutcome
    /\ out' = NoOut
    /\ UNCHANGED << aside, provider, locals >>

\* The lookup of stop_ec2 (lines 1197-1207) and destroy_ec2 (lines 839-849).
LookupOrExit(next_pc) ==
    /\ instances' = Handles(get_only_instances)
    /\ inst_i' = 1
    /\ IF get_only_instances = << >>
       THEN Exit(0, "No such cluster", "none")
       ELSE pc' = (IF args.assume_yes THEN next_pc ELSE "confirm") /\ UNCHANGED outcome

\* Variant: a declined confirmation ends the command like a missing cluster,
\* with sys.exit(0).
Confirm_exit_zero(next_pc) ==
    /\ out' = print_cluster_info_ec2(instances)
    /\ \E answer \in BOOLEAN :
          IF answer THEN pc' = next_pc /\ UNCHANGED outcome ELSE Exit(0, "Aborted!", "Abort")

\* Variant: the confirmation is asked without printing the cluster.
Confirm_silent(next_pc) ==
    /\ UNCHANGED out
    /\ \E answer \in BOOLEAN :
          IF answer THEN pc' = next_pc /\ UNCHANGED outcome ELSE click_abort("Abort")

\* lines 852-861 and 1210-1219: print the cluster, then click.confirm(abort=True).
Confirm(next_pc) ==
    /\ out' = print_cluster_info_ec2(instances)
    /\ \E answer \in BOOLEAN :
          IF answer THEN pc' = next_pc /\ UNCHANGED outcome ELSE click_abort("Abort")

stop_ec2_lookup ==
    /\ cmd = "stop" /\ pc = "lookup"
    /\ LookupOrExit("stop_instances")
    /\ UNCHANGED << aside, master_ssh_client, provider, cmd, args, out, search_results, rule_i,
                    cluster_info, tasks, module_i, cm, hc >>

stop_ec2_confirm ==
    /\ cmd = "stop" /\ pc = "confirm"
    /\ Confirm("stop_instances")
    /\ UNCHANGED << aside, provider, cmd, args, locals >>

\* lines 1221-1223
stop_ec2_stop_instances ==
    /\ cmd = "stop" /\ pc = "stop_instances"
    /\ LifecycleLoop("stop", "wait")
    /\ UNCHANGED << aside, master_ssh_client, groups, rules, cmd, args, out, search_results,
                    rule_i, instances, cluster_info, tasks, module_i, cm, hc >>

\* Variant: "<name> is now stopped." is printed without the wait loop.
stop_ec2_wait_returns_at_once ==
    /\ cmd = "stop" /\ pc = "wait"
    /\ Exit(0, "is now stopped", "none")
    /\ UNCHANGED << aside, provider, cmd, args, out, locals >>

\* lines 1225-1235: the loop's else branch prints "<name> is now stopped."
stop_ec2_wait ==
    /\ cmd = "stop" /\ pc = "wait"
    /\ IF NotYet(instances, "stopped") = {}
       THEN Exit(0, "is now stopped", "none") /\ UNCHANGED instances
       ELSE WaitLoop("stopped", "exited") /\ UNCHANGED outcome
    /\ UNCHANGED << aside, master_ssh_client, provider, cmd, args, out, search_results, rule_i,
                    inst_i, cluster_info, tasks, module_i, cm, hc >>

destroy ==
    /\ cmd = "idle"
    /\ cmd' = "destroy"
    /\ pc' = "lookup"
    /\ \E yes \in BOOLEAN : args' = [NoArgs EXCEPT !.assume_yes = yes]
    /\ outcome' = NoOutcome
    /\ out' = NoOut
    /\ UNCHANGED << aside, provider, locals >>

destroy_ec2_lookup ==
    /\ cmd = "destroy" /\ pc = "lookup"
    /\ LookupOrExit("terminate_instances")
    /\ UNCHANGED << aside, master_ssh_client, provider, cmd, args, out, search_results, rule_i,
                    cluster_info, tasks, module_i, cm, hc >>

destroy_ec2_confirm ==
    /\ cmd = "destroy" /\ pc = "confirm"
    /\ Confirm("terminate_instances")
    /\ UNCHANGED << aside, provider, cmd, args, locals >>

\* lines 866-868; destroy_ec2 returns after the last terminate.
destroy_ec2_terminate_instances ==
    /\ cmd = "destroy" /\ pc = "terminate_instances"
    /\ LifecycleLoop("terminate", "returned")
    /\ UNCHANGED << aside, master_ssh_client, groups, rules, cmd, args, out, search_results,
                    rule_i, instances, cluster_info, tasks, module_i, cm, hc >>

destroy_ec2_return ==
    /\ cmd = "destroy" /\ pc = "returned"
    /\ Exit(0, "ok", "none")
    /\ UNCHANGED << aside, provider, cmd, args, out, locals >>

\* ------------------------------------------------------------------ describe
\* describe_ec2 (lines 949-985) for the cluster name: one lookup, then the
\* cluster's aggregated state and node count (nothing when no instance is found).
describe_ec2 ==
    /\ cmd = "idle"
    /\ cmd' = "describe"
    /\ args' = NoArgs
    /\ instances' = Handles(get_only_instances)
    /\ out' = IF get_only_instances = << >> THEN NoOut
              ELSE print_cluster_info_ec2(Handles(get_only_instances))
    /\ Exit(0, "ok", "none")
    /\ UNCHANGED << aside, master_ssh_client, provider, search_results, rule_i, inst_i,
                    cluster_info, tasks, module_i, cm, hc >>

\* --------------------------------------------------------------------- login
\* login_ec2 (lines 1022-1043): one lookup of the instances tagged master; the
\* interactive ssh to the first one, or an Exception when there is none.
login_ec2 ==
    /\ cmd = "idle"
    /\ cmd' = "login"
    /\ args' = NoArgs
    /\ out' = NoOut
    /\ IF \E i \in Listed : vms[i].role = "master"
       THEN Exit(0, "ok", "none")
       ELSE Raise("Could not find a master")
    /\ UNCHANGED << aside, provider, locals >>

\* --------------------------------------------------------------- environment
\* The provider completes a lifecycle transition of instance i.
vm_progress(i) ==
    /\ vms[i].state \in { "pending", "stopping", "shutting-down" }
    /\ vms' = [vms EXCEPT ![i].state =
                  CASE @ = "pending" -> "running"
                    [] @ = "stopping" -> "stopped"
                    [] @ = "shutting-down" -> "terminated"]
    /\ UNCHANGED << aside, groups, rules, cmd, pc, args, outcome, out, locals >>

\* The provider stops listing a terminated instance.
vm_reaped(i) ==
    /\ vms[i].state = "terminated"
    /\ vms' = [vms EXCEPT ![i] = [state |-> "absent", role |-> "none"]]
    /\ UNCHANGED << aside, groups, rules, cmd, pc, args, outcome, out, locals >>

\* The positions at which the main thread's next step is a provider request.
ProviderCallPcs ==
    { "check", "sg_search", "sg_create_base", "sg_create_cluster",
      "run", "wait", "tag_master", "tag_slaves", "lookup",
      "start_instances", "stop_instances", "terminate_instances" }

\* A provider request fails with an EC2ResponseError (the failures of
\* authorize are part of AuthorizeLoop).  No command catches it.
provider_error ==
    /\ cmd # "idle" /\ pc \in ProviderCallPcs
    /\ Raise("EC2ResponseError")
    /\ UNCHANGED << aside, provider, cmd, args, out, locals >>

\* Variant: the handler terminates the reservation's instances (the finally
\* block that lines 646-651 leave commented out).
KeyboardInterrupt_terminating ==
    /\ cmd # "idle" /\ pc # "exited"
    /\ IF cmd = "launch" /\ pc \in LaunchTryPcs
       THEN /\ Exit(1, "Exiting...", "none")
            /\ vms' = [i \in DOMAIN vms |->
                          IF \E k \in DOMAIN instances : instances[k].id = i
                          THEN [vms[i] EXCEPT !.state = "shutting-down"] ELSE vms[i]]
       ELSE click_abort("KeyboardInterrupt") /\ UNCHANGED vms
    /\ master_ssh_client' = leave_with(master_ssh_client)
    /\ UNCHANGED << aside, groups, rules, cmd, args, out, search_results, rule_i, inst_i,
                    instances, cluster_info, tasks, module_i, cm, hc >>

\* Variant: the handler swallows the interrupt and launch_ec2 returns normally.
KeyboardInterrupt_swallowed ==
    /\ cmd # "idle" /\ pc # "exited"
    /\ IF cmd = "launch" /\ pc \in LaunchTryPcs
       THEN Exit(0, "Exiting...", "none")
       ELSE click_abort("KeyboardInterrupt")
    /\ master_ssh_client' = leave_with(master_ssh_client)
    /\ UNCHANGED << aside, provider, cmd, args, out, search_results, rule_i, inst_i, instances,
                    cluster_info, tasks, module_i, cm, hc >>

\* The user interrupts the process (Ctrl-C, delivered to the main thread).
\* launch_ec2 catches it inside its try block (lines 642-645): "Exiting...",
\* sys.exit(1).  Anywhere else it leaves the command.
KeyboardInterrupt ==
    /\ cmd # "idle" /\ pc # "exited"
    /\ IF cmd = "launch" /\ pc \in LaunchTryPcs
       THEN Exit(1, "Exiting...", "none")
       ELSE click_abort("KeyboardInterrupt")
    /\ master_ssh_client' = leave_with(master_ssh_client)
    /\ UNCHANGED << aside, provider, cmd, args, out, search_results, rule_i, inst_i, instances,
                    cluster_info, tasks, module_i, cm, hc >>

\* The record of the commands that succeeded one after the other, starting
\* with a launch: launch (step 1), stop (2), start (3).  describe leaves it as
\* it is; any other command, and any command that did not succeed, ends it.
Track(t) ==
    IF t.step = -1 \/ cmd = "describe" THEN t
    ELSE IF t.step = 0 /\ cmd = "launch" /\ outcome.code = 0
    THEN [step |-> 1, num_slaves |-> args.num_slaves, master |-> instances[1].id]
    ELSE IF t.step = 1 /\ cmd = "stop" /\ outcome.msg = "is now stopped"
    THEN [t EXCEPT !.step = 2]
    ELSE IF t.step = 2 /\ cmd = "start" /\ outcome.code = 0 /\ outcome.msg = "ok"
    THEN [t EXCEPT !.step = 3]
    ELSE NoTrail

\* The process is gone once the main thread has ended and the executor's
\* threads have finished their tasks.
process_exit ==
    /\ cmd # "idle" /\ pc = "exited"
    /\ AllDone
    /\ cmd' = "idle"
    /\ pc' = "idle"
    /\ args' = NoArgs
    /\ outcome' = NoOutcome
    /\ out' = NoOut
    /\ search_results' = {}
    /\ rule_i' = 1
    /\ inst_i' = 1
    /\ instances' = << >>
    /\ cluster_info' = NoInfo
    /\ tasks' = << >>
    /\ module_i' = 1
    /\ cm' = << >>
    /\ hc' = << >>
    /\ master_ssh_client' = "none"
    /\ trail' = Track(trail)
    /\ UNCHANGED << provider, ssh, agg, script, launchers >>

\* ---------------------------------------------------------------------- Next
Next ==
    \/ launch
    \/ launch_ec2_check
    \/ sg_search
    \/ sg_create_base
    \/ sg_auth_client
    \/ sg_create_cluster
    \/ sg_auth_cluster
    \/ run_instances
    \/ launch_ec2_wait
    \/ launch_ec2_tag_master
    \/ launch_ec2_tag_slaves
    \/ launch_ec2_build_info
    \/ launch_ec2_fanout
    \/ \E k \in 1..(MaxSlaves + 1) : provision_ec2_node(k)
    \/ \E k \in 1..MaxId : task_fails(k)
    \/ launch_ec2_join
    \/ launch_ec2_connect_master
    \/ launch_ec2_configure_master
    \/ launch_ec2_configure_master_end
    \/ launch_ec2_health_check
    \/ start
    \/ start_ec2_lookup
    \/ start_ec2_start_instances
    \/ start_ec2_wait
    \/ start_ec2_build_info
    \/ start_ec2_fanout
    \/ \E k \in 1..MaxId : start_ec2_node(k)
    \/ start_ec2_join
    \/ start_ec2_connect_master
    \/ start_ec2_configure_master
    \/ start_ec2_configure_master_end
    \/ start_ec2_health_check
    \/ stop
    \/ stop_ec2_lookup
    \/ stop_ec2_confirm
    \/ stop_ec2_stop_instances
    \/ stop_ec2_wait
    \/ destroy
    \/ destroy_ec2_lookup
    \/ destroy_ec2_confirm
    \/ destroy_ec2_terminate_instances
    \/ destroy_ec2_return
    \/ describe_ec2
    \/ login_ec2
    \/ \E i \in 1..MaxId : vm_progress(i)
    \/ \E i \in 1..MaxId : vm_reaped(i)
    \/ provider_error
    \/ KeyboardInterrupt
    \/ process_exit

Spec == Init /\ [][Next]_vars

\* ------------------------------------------- launch, stop, start in sequence
\* The commands of a cluster that is launched, stopped and started again, with
\* describe at any time; a command may fail or be interrupted.  trail records
\* how far the sequence got.
InitRT ==
    /\ InitMain
    /\ trail = [step |-> 0, num_slaves |-> 0, master |-> 0]
    /\ ssh = NoSSH
    /\ agg = NoAgg
    /\ script = NoScript
    /\ launchers = NoLaunchers

NextRT ==
    \/ launch
    \/ launch_ec2_check
    \/ sg_search
    \/ sg_create_base
    \/ sg_auth_client
    \/ sg_create_cluster
    \/ sg_auth_cluster
    \/ run_instances
    \/ launch_ec2_wait
    \/ launch_ec2_tag_master
    \/ launch_ec2_tag_slaves
    \/ launch_ec2_build_info
    \/ launch_ec2_fanout
    \/ \E k \in 1..(MaxSlaves + 1) : provision_ec2_node(k)
    \/ \E k \in 1..MaxId : task_fails(k)
    \/ launch_ec2_join
    \/ launch_ec2_connect_master
    \/ launch_ec2_configure_master
    \/ launch_ec2_configure_master_end
    \/ launch_ec2_health_check
    \/ stop
    \/ stop_ec2_lookup
    \/ stop_ec2_confirm
    \/ stop_ec2_stop_instances
    \/ stop_ec2_wait
    \/ start
    \/ start_ec2_lookup
    \/ start_ec2_start_instances
    \/ start_ec2_wait
    \/ start_ec2_build_info
    \/ start_ec2_fanout
    \/ \E k \in 1..MaxId : start_ec2_node(k)
    \/ start_ec2_join
    \/ start_ec2_connect_master
    \/ start_ec2_configure_master
    \/ start_ec2_configure_master_end
    \/ start_ec2_health_check
    \/ describe_ec2
    \/ \E i \in 1..MaxId : vm_progress(i)
    \/ provider_error
    \/ KeyboardInterrupt
    \/ process_exit

SpecRT == InitRT /\ [][NextRT]_vars

\* ------------------------------------------------- instances that terminate
\* While a command waits for its instances to run, instance i is terminated
\* from outside the tool (by the account's owner, or by the provider when the
\* instance cannot be started).
vm_terminated(i) ==
    /\ cmd \in { "launch", "start" } /\ pc = "wait"
    /\ vms[i].state \in { "pending", "running" }
    /\ vms' = [vms EXCEPT ![i].state = "shutting-down"]
    /\ UNCHANGED << aside, groups, rules, cmd, pc, args, outcome, out, locals >>

\* launch, stop and start, with instances that may terminate during the wait.
NextWait ==
    \/ launch
    \/ launch_ec2_check
    \/ sg_search
    \/ sg_create_base
    \/ sg_auth_client
    \/ sg_create_cluster
    \/ sg_auth_cluster
    \/ run_instances
    \/ launch_ec2_wait
    \/ launch_ec2_tag_master
    \/ launch_ec2_tag_slaves
    \/ launch_ec2_build_info
    \/ launch_ec2_fanout
    \/ \E k \in 1..(MaxSlaves + 1) : provision_ec2_node(k)
    \/ launch_ec2_join
    \/ launch_ec2_connect_master
    \/ launch_ec2_configure_master
    \/ launch_ec2_configure_master_end
    \/ launch_ec2_health_check
    \/ stop
    \/ stop_ec2_lookup
    \/ stop_ec2_confirm
    \/ stop_ec2_stop_instances
    \/ stop_ec2_wait
    \/ start
    \/ start_ec2_lookup
    \/ start_ec2_start_instances
    \/ start_ec2_wait
    \/ start_ec2_build_info
    \/ start_ec2_fanout
    \/ \E k \in 1..MaxId : start_ec2_node(k)
    \/ start_ec2_join
    \/ start_ec2_connect_master
    \/ start_ec2_configure_master
    \/ start_ec2_configure_master_end
    \/ start_ec2_health_check
    \/ \E i \in 1..MaxId : vm_progress(i)
    \/ \E i \in 1..MaxId : vm_terminated(i)
    \/ KeyboardInterrupt
    \/ process_exit

\* The main thread polls again after its sleep, and the provider completes
\* the transitions it began.
SpecWait ==
    /\ Init /\ [][NextWait]_vars
    /\ WF_vars(launch_ec2_wait) /\ WF_vars(start_ec2_wait)
    /\ \A i \in 1..MaxId : WF_vars(vm_progress(i))

\* ------------------------------------------------------------ fair provider
\* The commands that create, stop and destroy a cluster, with their failures.
NextFair ==
    \/ launch
    \/ launch_ec2_check
    \/ sg_search
    \/ sg_create_base
    \/ sg_auth_client
    \/ sg_create_cluster
    \/ sg_auth_cluster
    \/ run_instances
    \/ launch_ec2_wait
    \/ launch_ec2_tag_master
    \/ launch_ec2_tag_slaves
    \/ launch_ec2_build_info
    \/ launch_ec2_fanout
    \/ \E k \in 1..(MaxSlaves + 1) : provision_ec2_node(k)
    \/ launch_ec2_join
    \/ launch_ec2_connect_master
    \/ launch_ec2_configure_master
    \/ launch_ec2_configure_master_end
    \/ launch_ec2_health_check
    \/ stop
    \/ stop_ec2_lookup
    \/ stop_ec2_confirm
    \/ stop_ec2_stop_instances
    \/ stop_ec2_wait
    \/ destroy
    \/ destroy_ec2_lookup
    \/ destroy_ec2_confirm
    \/ destroy_ec2_terminate_instances
    \/ destroy_ec2_return
    \/ \E i \in 1..MaxId : vm_progress(i)
    \/ \E i \in 1..MaxId : vm_reaped(i)
    \/ provider_error
    \/ KeyboardInterrupt
    \/ process_exit

\* The provider completes every lifecycle transition it began (pending to
\* running, stopping to stopped, shutting-down to terminated).
SpecFair == Init /\ [][NextFair]_vars /\ \A i \in 1..MaxId : WF_vars(vm_progress(i))

\* ------------------------------------------------------------ get_ssh_client
\* The platforms the client may run on; they number the socket errors
\* differently.
Platforms == { "darwin", "linux" }

\* e.errno of a socket.error: errno.ECONNREFUSED (connection refused) and
\* errno.EHOSTUNREACH (no route to host) on the client's platform.
Errno(name, platform) ==
    CASE name = "ECONNREFUSED" -> (IF platform = "darwin" THEN 61 ELSE 111)
      [] name = "EHOSTUNREACH" -> (IF platform = "darwin" THEN 65 ELSE 113)

\* What client.connect(..., timeout=3) may do: return ("ok") or raise
\* socket.timeout, a socket.error (named by its errno), paramiko's
\* AuthenticationException, or another paramiko SSHException.
ConnectResults == { "ok", "socket.timeout", "ECONNREFUSED", "EHOSTUNREACH",
                    "AuthenticationException", "SSHException" }

\* the errno a socket.error must carry to be retried (line 686)
RetriedErrno == 61

\* seconds slept before the next attempt (lines 684, 688, 692)
Backoff == 5

\* lines 672-692: what the loop body does with the result of client.connect:
\* "break", "sleep" (then the next attempt) or "raise".
get_ssh_client_handler(result, platform) ==
    CASE result = "ok" -> "break"
      [] result = "socket.timeout" -> "sleep"
      [] result \in { "ECONNREFUSED", "EHOSTUNREACH" } ->
            (IF Errno(result, platform) # RetriedErrno THEN "raise" ELSE "sleep")
      [] result = "AuthenticationException" -> "sleep"
      [] OTHER -> "raise"

\* One pass of the `while True` loop of get_ssh_client (lines 671-692).
get_ssh_client ==
    /\ ssh.pc = "connect"
    /\ Len(ssh.log) < MaxAttempts
    /\ \E result \in ConnectResults :
          LET h == get_ssh_client_handler(result, ssh.platform)
              tried == [ssh EXCEPT !.log = Append(@, result)]
          IN ssh' = CASE h = "break" -> [tried EXCEPT !.pc = "returned"]
                      [] h = "sleep" -> [tried EXCEPT !.slept = @ + Backoff]
                      [] h = "raise" -> [tried EXCEPT !.pc = "raised", !.err = result]
    /\ UNCHANGED << main, trail, agg, script, launchers >>

InitSSH ==
    /\ InitMain
    /\ trail = NoTrail
    /\ agg = NoAgg
    /\ script = NoScript
    /\ launchers = NoLaunchers
    /\ \E platform \in Platforms :
          ssh = [platform |-> platform, pc |-> "connect", log |-> << >>, slept |-> 0,
                 err |-> "none"]

NextSSH == get_ssh_client

SpecSSH == InitSSH /\ [][NextSSH]_vars

\* ----------------------------------------------------- get_cluster_state_ec2
\* The instance states of the provider.
InstanceStates == { "pending", "running", "shutting-down", "terminated", "stopping",
                    "stopped" }

\* One call of get_cluster_state_ec2 (lines 891-903) on the handles given.
get_cluster_state_ec2_call ==
    /\ agg.instances # << >> /\ agg.state = "none"
    /\ agg' = [agg EXCEPT !.state = get_cluster_state_ec2(agg.instances)]
    /\ UNCHANGED << main, trail, ssh, script, launchers >>

InitAgg ==
    /\ InitMain
    /\ trail = NoTrail
    /\ ssh = NoSSH
    /\ script = NoScript
    /\ launchers = NoLaunchers
    /\ \E n \in 1..MaxMembers : \E states \in [1..n -> InstanceStates] :
          agg = [instances |-> [k \in 1..n |-> [id |-> k, state |-> states[k], dns |-> 0]],
                 state |-> "none"]

NextAgg == get_cluster_state_ec2_call

SpecAgg == InitAgg /\ [][NextAgg]_vars

\* ==================================================================== claims
FailedTasks == { k \in DOMAIN tasks : tasks[k].failed }

LaunchedIds == { instances[k].id : k \in DOMAIN instances }

\* C1: in launch no module's configure_master starts before every per-node
\* task of the fan-out (one per launched VM, master included) has completed,
\* whatever the interleaving of the tasks.
C1_ProvisionBeforeConfigureMaster ==
    (cmd = "launch" /\ (pc \in { "configure_master", "configure_master_end", "health_check" }
                        \/ \E m \in DOMAIN cm : cm[m] # "none"))
        => /\ Len(tasks) = args.num_slaves + 1
           /\ \A k \in DOMAIN tasks : Terminal(tasks[k])

C1_Witness ==
    /\ cmd = "launch" /\ pc = "configure_master_end"
    /\ cm[1] = "running"
    /\ Len(tasks) >= 2
    /\ \A k \in DOMAIN tasks : tasks[k].pc = "done"

\* C2 (as claimed): the existence check of launch on a cluster name whose lookup
\* returns at least one VM ends the process with code 1 and the message
\* "Cluster already exists", and leaves the provider state unchanged.
C2_ExistingClusterRefused ==
    [][ (Listed # {} /\ launch_ec2_check)
            => /\ outcome'.code = 1
               /\ outcome'.msg = "Cluster already exists"
               /\ provider' = provider ]_vars

\* C3: when a per-node task of the launch fan-out fails the launch fails: no
\* module's configure_master or health_check is run, the process ends with a
\* non-zero status, and the failure is re-raised only after all tasks completed.
C3_TaskFailureFailsLaunch ==
    cmd = "launch" =>
        /\ FailedTasks # {} =>
              /\ \A m \in DOMAIN cm : cm[m] = "none" /\ hc[m] = "none"
              /\ pc \notin { "connect_master", "configure_master", "configure_master_end",
                            "health_check" }
              /\ pc = "exited" => outcome.code = 1
        /\ outcome.err = "task" => AllDone /\ outcome.task \in FailedTasks

C3_Witness ==
    /\ cmd = "launch" /\ pc = "exited"
    /\ outcome.err = "task"
    /\ args.modules # << >>
    /\ \E k \in DOMAIN tasks : tasks[k].failed
    /\ \E k \in DOMAIN tasks : tasks[k].pc = "done"

\* C4 (as claimed): the error launch re-raises is that of the first failed task
\* in task-list order, whatever the order in which the done set is iterated.
C4_FirstInTaskListOrder ==
    (cmd = "launch" /\ outcome.err = "task") => outcome.task = Min(FailedTasks)

\* C4 (amended): the error launch re-raises is that of one of the failed
\* tasks, the first failed one the iteration over the done set visits; it is
\* determined by the set of failing nodes only when a single node fails.
C4_SomeFailedTask ==
    (cmd = "launch" /\ outcome.err = "task")
        => /\ outcome.task \in FailedTasks
           /\ Cardinality(FailedTasks) = 1 => outcome.task = Min(FailedTasks)

C4_Witness ==
    /\ cmd = "launch" /\ outcome.err = "task"
    /\ Cardinality(FailedTasks) >= 2
    /\ outcome.task # Min(FailedTasks)

\* C5: in launch ClusterInfo is built, tags are set and provisioning starts
\* only after every handle of the reservation has been observed running, and
\* the hosts of ClusterInfo are the names the handles got from the refresh that
\* observed them running.
C5_RunningBeforeClusterInfo ==
    (cmd = "launch" /\ (cluster_info.built \/ tasks # << >>
                        \/ \E i \in LaunchedIds : vms[i].role # "none"))
        => /\ \A k \in DOMAIN instances :
                 instances[k].state = "running" /\ instances[k].dns = instances[k].id
           /\ cluster_info.built =>
                 /\ cluster_info.master_host = instances[1].id
                 /\ \A k \in DOMAIN cluster_info.slave_hosts :
                       cluster_info.slave_hosts[k] = instances[k + 1].id

C5_Witness ==
    /\ cmd = "launch" /\ cluster_info.built
    /\ Len(instances) >= 2
    /\ tasks # << >>

\* C6: in launch and in start a module's health_check starts only after that
\* module's configure_master has completed on the master, and is never run
\* when configure_master failed.
C6_ConfigureMasterBeforeHealthCheck ==
    cmd \in { "launch", "start" } =>
        /\ \A m \in DOMAIN hc : hc[m] # "none" => cm[m] = "done"
        /\ pc = "health_check" => cm[module_i] = "done"
        /\ \A m \in DOMAIN cm : cm[m] = "failed" => hc[m] = "none" /\ pc = "exited"

C6_Witness ==
    /\ cmd = "launch"
    /\ hc # << >> /\ hc[1] = "ok" /\ cm[1] = "done"

\* C7: launch never stops or terminates a VM: while the launch process lives,
\* also after it failed or was interrupted, every VM of its reservation is
\* still listed in the cluster group and is pending or running.
C7_LaunchNeverReclaims ==
    cmd = "launch" =>
        \A i \in LaunchedIds : i \in Listed /\ vms[i].state \in { "pending", "running" }

C7_Witness ==
    /\ cmd = "launch" /\ pc = "exited"
    /\ outcome.code = 1
    /\ Len(instances) >= 2
    /\ \E i \in LaunchedIds : vms[i].state = "running"

\* C8: a user interrupt at any point of launch ends the orchestration with
\* exit code 1 and stops or terminates no VM; once the main thread has ended
\* it configures and checks nothing more.
C8_InterruptExitsOne ==
    [][ /\ (cmd = "launch" /\ KeyboardInterrupt)
            => /\ pc' = "exited"
               /\ outcome'.code = 1
               /\ provider' = provider
        /\ (cmd = "launch" /\ pc = "exited" /\ outcome.msg \in { "Exiting...", "Aborted!" })
            => \/ cmd' = "idle"
               \/ /\ pc' = "exited" /\ outcome' = outcome
                  /\ cm' = cm /\ hc' = hc /\ cluster_info' = cluster_info
                  /\ \A i \in LaunchedIds : vms'[i].state \in { "pending", "running" } ]_vars

C8_Witness ==
    /\ cmd = "launch" /\ pc = "exited"
    /\ outcome.msg = "Exiting..."
    /\ outcome.code = 1
    /\ \E i \in LaunchedIds : vms[i].state \in { "pending", "running" }

RolesAfterLaunch ==
    (cmd = "launch" /\ pc = "exited" /\ outcome.code = 0)
        => /\ Listed = LaunchedIds
           /\ Cardinality(Listed) = args.num_slaves + 1
           /\ \A k \in DOMAIN instances :
                 vms[instances[k].id].role = (IF k = 1 THEN "master" ELSE "slave")

TagsKept ==
    (cmd \in { "stop", "start", "describe" } \/ cmd' \in { "stop", "start", "describe" })
        => \A i \in DOMAIN vms : vms'[i].state # "absent" => vms'[i].role = vms[i].role

\* C9: after a successful launch with num_slaves = N the cluster has N + 1
\* members, the first handle of the reservation tagged master and the N others
\* tagged slave; stop, start and describe change no member's role tag.
C9_Roles == [] RolesAfterLaunch /\ [][TagsKept]_vars

C9_Witness ==
    /\ cmd = "start" /\ pc = "exited" /\ outcome.code = 0
    /\ Len(instances) >= 2
    /\ Cardinality({ i \in Listed : vms[i].role = "master" }) = 1
    /\ \A k \in DOMAIN instances :
          vms[instances[k].id].role = (IF k = 1 THEN "master" ELSE "slave")

\* C10: every ClusterInfo built by launch or by start has master_host not in
\* slave_hosts, and as many slave hosts as num_slaves (launch) or as there are
\* members not tagged master (start).
C10_ClusterInfoShape ==
    (cmd \in { "launch", "start" } /\ cluster_info.built)
        => /\ cluster_info.master_host \notin Range(cluster_info.slave_hosts)
           /\ Len(cluster_info.slave_hosts) =
                 (IF cmd = "launch" THEN args.num_slaves
                  ELSE Cardinality({ i \in Listed : vms[i].role # "master" }))

C10_Witness ==
    /\ cmd = "start" /\ cluster_info.built
    /\ Len(cluster_info.slave_hosts) >= 1

\* Both groups exist with every rule get_or_create_ec2_security_groups
\* authorizes for the client address ip: the provider state a completed
\* invocation for ip leaves.
SecurityGroupsDone(ip) ==
    /\ { flintrock_group_name, cluster_group_name } \subseteq groups
    /\ Range(client_rules(ip)) \subseteq rules[flintrock_group_name]
    /\ Range(cluster_rules) \subseteq rules[cluster_group_name]

\* The sources of the CIDR rules of the base group.
ClientCidrs == { r.src : r \in { q \in rules[flintrock_group_name] : q.src[1] = "cidr" } }

SecondInvocationFindsGroups ==
    (cmd = "launch" /\ pc \in SecurityGroupPcs \ { "sg_search" }
     /\ SecurityGroupsDone(args.client_ip))
        => search_results = { flintrock_group_name, cluster_group_name }

SecondInvocationAddsNothing ==
    (cmd = "launch" /\ pc \in SecurityGroupPcs /\ SecurityGroupsDone(args.client_ip))
        => /\ groups' = groups
           /\ rules' = rules
           /\ pc' = "exited" =>
                 \/ outcome'.msg = "Aborted!"
                 \/ outcome'.err \in { "EC2ResponseError", "RulesPerSecurityGroupLimitExceeded" }

\* C11: get_or_create_ec2_security_groups is idempotent: invoked for a cluster
\* name and a client address for which an invocation has completed, it finds
\* both groups, creates no group, adds no rule and leaves both rule sets as
\* they were; it ends early only when the provider fails or the user interrupts.
C11_SecurityGroupsIdempotent ==
    [] SecondInvocationFindsGroups /\ [][SecondInvocationAddsNothing]_vars

C11_Witness ==
    /\ cmd = "launch" /\ pc = "sg_auth_cluster" /\ rule_i = 3
    /\ SecurityGroupsDone(args.client_ip)
    /\ ClientCidrs = { << "cidr", args.client_ip, 32 >> }
    /\ search_results = { flintrock_group_name, cluster_group_name }

\* C12: an InvalidPermission.Duplicate answer to an authorize request is
\* swallowed and the loop goes on with the next rule, so that every rule is
\* authorized when launch goes on to run_instances; an error of another class
\* leaves get_or_create_ec2_security_groups and launch fails with status 1
\* before any VM is launched.
C12_AuthorizeErrors ==
    /\ outcome.err # "InvalidPermission.Duplicate"
    /\ (cmd = "launch" /\ outcome.err = "RulesPerSecurityGroupLimitExceeded")
          => /\ pc = "exited" /\ outcome.code = 1
             /\ instances = << >> /\ Listed = {}
    /\ (cmd = "launch" /\ pc \in LaunchTryPcs) => SecurityGroupsDone(args.client_ip)

C12_Witness ==
    /\ cmd = "launch" /\ pc = "exited"
    /\ outcome.err = "RulesPerSecurityGroupLimitExceeded"
    /\ rule_i = 2
    /\ Range(client_rules(args.client_ip)) \subseteq rules[flintrock_group_name]

\* C13 (as claimed): after get_or_create_ec2_security_groups returned, the
\* client-ingress CIDR on the base group is the /32 of the invoking client's
\* address, also when an earlier invocation ran from another address.
C13_ClientCidrIsCallers ==
    (cmd = "launch" /\ pc \in LaunchTryPcs)
        => ClientCidrs = { << "cidr", args.client_ip, 32 >> }

\* C14 (as claimed): when the lookup yields no instance, start, stop, destroy
\* and login end with a message and a non-zero exit status and leave the
\* provider state unchanged, whereas launch goes on.
C14_AbsentClusterIsAnError ==
    [][ /\ (Listed = {} /\ (start_ec2_lookup \/ stop_ec2_lookup \/ destroy_ec2_lookup
                              \/ login_ec2))
            => /\ pc' = "exited"
               /\ outcome'.msg # "none"
               /\ outcome'.code > 0
               /\ provider' = provider
        /\ (Listed = {} /\ launch_ec2_check) => pc' = "sg_search" ]_vars

\* C15: after a successful launch with num_slaves = N, then a successful stop,
\* then a successful start, describe reports the aggregated state running and
\* N + 1 nodes, and the member tagged master is the master of the launch.
C15_LaunchStopStartRoundTrip ==
    (cmd = "describe" /\ pc = "exited" /\ trail.step = 3)
        => /\ out.state = "running"
           /\ out.count = trail.num_slaves + 1
           /\ { i \in Listed : vms[i].role = "master" } = { trail.master }

C15_Witness ==
    /\ cmd = "describe" /\ pc = "exited" /\ trail.step = 3
    /\ out.state = "running" /\ out.count = 2

\* C16: stop sends the stop request to every member of the cluster before it
\* waits, and prints that the cluster is stopped and returns only after every
\* member has been observed stopped.
C16_StopWaitsForEveryMember ==
    /\ (cmd = "stop" /\ pc = "wait")
          => /\ LaunchedIds = Listed
             /\ \A i \in LaunchedIds : vms[i].state \in { "stopping", "stopped" }
    /\ (cmd = "stop" /\ outcome.msg = "is now stopped")
          => /\ LaunchedIds = Listed
             /\ \A k \in DOMAIN instances :
                   instances[k].state = "stopped" /\ vms[instances[k].id].state = "stopped"

C16_Witness ==
    /\ cmd = "stop" /\ pc = "exited" /\ outcome.msg = "is now stopped"
    /\ Len(instances) >= 2

TerminateSentToEveryMember ==
    (cmd = "destroy" /\ (pc = "returned" \/ (pc = "exited" /\ outcome.msg = "ok")))
        => /\ instances # << >>
           /\ Listed \subseteq LaunchedIds
           /\ \A i \in LaunchedIds : vms[i].state \in { "shutting-down", "terminated", "absent" }

\* C17: once destroy of an existing cluster was confirmed (or run with
\* assume-yes) and has returned, the terminate request has been sent to every
\* member: every listed instance is a member of the lookup and is shutting
\* down or terminated, none is left in another state; and with a provider
\* that completes its transitions every member is eventually terminated (or
\* no longer listed).
C17_DestroyTerminatesEveryMember ==
    /\ [] TerminateSentToEveryMember
    /\ \A i \in 1..MaxId :
          (cmd = "destroy" /\ pc = "returned" /\ i \in LaunchedIds)
              ~> (vms[i].state \in { "terminated", "absent" })

C17_Witness ==
    /\ cmd = "destroy" /\ pc = "exited" /\ outcome.msg = "ok"
    /\ Len(instances) >= 2
    /\ \E i \in LaunchedIds : vms[i].state = "shutting-down"

\* A step in which the provider gets no start, stop or terminate request:
\* the instances stay as they are or the provider goes on by itself.
NoLifecycleRequest ==
    \/ vms' = vms
    \/ \E i \in DOMAIN vms : vm_progress(i) \/ vm_reaped(i)

ConfirmationDeclined ==
    (cmd \in { "stop", "destroy" } /\ outcome.err = "Abort")
        => /\ pc = "exited" /\ outcome.code = 1
           /\ ~ args.assume_yes
           /\ inst_i = 1

NoRequestBeforeConfirmation ==
    (cmd \in { "stop", "destroy" }
     /\ (pc \in { "lookup", "confirm" } \/ outcome.err = "Abort"))
        => NoLifecycleRequest

\* C18: when the confirmation of stop or destroy is declined the command
\* aborts with exit code 1 and no member has been sent a stop or terminate
\* request; with assume-yes no confirmation is asked.
C18_DeclinedConfirmationAborts ==
    /\ [] ConfirmationDeclined
    /\ [] ((cmd \in { "stop", "destroy" } /\ args.assume_yes) => pc # "confirm")
    /\ [][NoRequestBeforeConfirmation]_vars

C18_Witness ==
    /\ cmd = "destroy" /\ pc = "exited" /\ outcome.err = "Abort"
    /\ outcome.code = 1
    /\ Len(instances) >= 2
    /\ \A i \in LaunchedIds : vms[i].state = "running"

\* The results of client.connect the claim names as retried.
Retriable == { "socket.timeout", "ECONNREFUSED", "AuthenticationException" }

\* C19 (as claimed): get_ssh_client retries, after a fixed back-off of 5
\* seconds, on connection refused, on timeout and on authentication failure,
\* and returns the session once an attempt succeeds; only an error of another
\* class is raised to the caller.
C19_ConnectRetries ==
    /\ ssh.pc = "raised" => ssh.err \notin Retriable
    /\ ssh.pc = "connect" =>
          /\ \A k \in DOMAIN ssh.log : ssh.log[k] \in Retriable
          /\ ssh.slept = 5 * Len(ssh.log)
    /\ ssh.pc = "returned" => ssh.log[Len(ssh.log)] = "ok"

\* C20: the aggregated state of a non-empty cluster is "inconsistent" when
\* its members are in more than one state, and the members' common state
\* otherwise.
C20_AggregatedState ==
    agg.state # "none" =>
        IF \E j, k \in DOMAIN agg.instances : agg.instances[j].state # agg.instances[k].state
        THEN agg.state = "inconsistent"
        ELSE agg.state = agg.instances[1].state

C20_Witness ==
    /\ Len(agg.instances) = 3
    /\ agg.instances[1].state = "running" /\ agg.instances[2].state = "running"
    /\ agg.instances[3].state = "stopped"
    /\ agg.state = "inconsistent"

\* The handles of stop are all in state stopped, as are their instances.
HandlesAllStopped ==
    /\ instances # << >>
    /\ \A k \in DOMAIN instances :
          instances[k].state = "stopped" /\ vms[instances[k].id].state = "stopped"

StopOnStoppedChangesNothing ==
    (cmd = "stop" /\ pc \in { "confirm", "stop_instances", "wait" } /\ HandlesAllStopped)
        => /\ vms' = vms
           /\ stop_ec2_wait => (pc' = "exited" /\ outcome'.msg = "is now stopped")

\* C21 (as claimed): stop on a cluster whose members are all stopped changes
\* no VM, its wait ends at once, and it has printed the cluster's aggregated
\* state when it sends the stop requests, with or without assume-yes.
C21_StopOnStoppedPrintsState ==
    /\ [][StopOnStoppedChangesNothing]_vars
    /\ [] ((cmd = "stop" /\ pc = "stop_instances" /\ HandlesAllStopped)
              => out.state = "stopped")

\* C21 (amended): stop on a cluster whose members are all stopped changes no
\* VM and its wait ends at once; the aggregated state and the node count are
\* printed only before the confirmation, so with assume-yes they are not
\* printed at all.
C21_StopOnStoppedPrintsStateUnlessAssumeYes ==
    /\ [][StopOnStoppedChangesNothing]_vars
    /\ [] ((cmd = "stop" /\ pc = "stop_instances" /\ HandlesAllStopped)
              => IF args.assume_yes THEN out = NoOut
                 ELSE out = [state |-> "stopped", count |-> Len(instances)])

C21_Witness ==
    /\ cmd = "stop" /\ pc = "stop_instances" /\ inst_i = 2
    /\ HandlesAllStopped
    /\ args.assume_yes /\ out = NoOut

\* C22 (as claimed): launch with num_slaves = 0 launches one VM, the master,
\* and no slave; the fan-out has one task, ClusterInfo has no slave host, and
\* launch does not fail because the slave set is empty, the tagging of zero
\* slaves included.
C22_LaunchWithoutSlaves ==
    (cmd = "launch" /\ args.num_slaves = 0)
        => /\ Len(instances) <= 1
           /\ tasks # << >> => Len(tasks) = 1
           /\ cluster_info.built => cluster_info.slave_hosts = << >>
           /\ \A i \in LaunchedIds : vms[i].role \in { "none", "master" }
           /\ outcome.err # "MissingParameter"

\* The wait loop has a handle not yet observed running whose instance is
\* terminated or being terminated.
AwaitsTerminated ==
    /\ cmd \in { "launch", "start" } /\ pc = "wait"
    /\ \E k \in DOMAIN instances :
          /\ instances[k].state # "running"
          /\ vms[instances[k].id].state \in { "shutting-down", "terminated" }

WaitExitsOnlyWhenAllRunning ==
    (cmd \in { "launch", "start" } /\ pc = "wait" /\ pc' \notin { "wait", "exited" })
        => /\ \A k \in DOMAIN instances : instances[k].state = "running"
           /\ instances' = instances
           /\ pc' = (IF cmd = "launch" THEN "tag_master" ELSE "build_info")

TerminatedIsPolledForever ==
    AwaitsTerminated => (pc' = "exited" \/ AwaitsTerminated')

\* C23: the wait-for-running loop of launch and of start goes on to the next
\* step only when every handle has been observed running; it ends when every
\* instance reaches running (the loop and the provider being fair); while a
\* handle not yet observed running belongs to a terminated instance the loop
\* polls forever, it ends only with the process.
C23_WaitForRunning ==
    /\ [][WaitExitsOnlyWhenAllRunning]_vars
    /\ [][TerminatedIsPolledForever]_vars
    /\ (cmd \in { "launch", "start" } /\ pc = "wait")
          ~> (pc # "wait"
              \/ \E k \in DOMAIN instances :
                    vms[instances[k].id].state \in { "shutting-down", "terminated" })

C23_Witness ==
    /\ cmd = "launch" /\ pc = "wait"
    /\ Len(instances) >= 2
    /\ instances[1].state = "running"
    /\ instances[2].state = "terminated"

\* ----------------------------------------------------- configure_master
MaxPolls == 3

\* What curl --write-out "%{http_code}" prints for one request to the master
\* UI: the response's status, 000 when there was no response.
HttpCodes == { 0, 200, 404, 503 }

\* Variant: the loop ends with the first response of any status.
PollAgain_until_response(code) == code = 0

\* lines 228-229: the loop's condition, [ "$master_ui_response_code" -ne 200 ].
PollAgain(code) == code # 200

\* One step of the script of Spark.configure_master (lines 218-243).  Under
\* set -e a failing command ends the script with its status, and
\* ssh_check_output raises; between set +e and set -e nothing does.
configure_master_script ==
    /\ \/ /\ script.pc = "write_slaves"
          /\ \E ok \in BOOLEAN :
                IF ok THEN script' = [script EXCEPT !.slaves_file = script.slave_hosts,
                                                    !.pc = "start_master"]
                ELSE script' = [script EXCEPT !.pc = "raised"]
       \/ /\ script.pc = "start_master"
          /\ \E ok \in BOOLEAN :
                IF ok THEN script' = [script EXCEPT !.master = "started", !.pc = "poll"]
                ELSE script' = [script EXCEPT !.pc = "raised"]
       \/ /\ script.pc = "poll"
          /\ IF PollAgain(script.code)
             THEN /\ Len(script.log) < MaxPolls
                  /\ \E code \in HttpCodes :
                        script' = [script EXCEPT !.code = code, !.log = Append(@, code)]
             ELSE script' = [script EXCEPT !.pc = "start_slaves"]
       \/ /\ script.pc = "start_slaves"
          /\ \E ok \in BOOLEAN :
                IF ok THEN script' = [script EXCEPT !.slaves = "started", !.pc = "returned"]
                ELSE script' = [script EXCEPT !.pc = "raised"]
    /\ UNCHANGED << main, trail, ssh, agg, launchers >>

InitScript ==
    /\ InitMain
    /\ trail = NoTrail
    /\ ssh = NoSSH
    /\ agg = NoAgg
    /\ launchers = NoLaunchers
    /\ \E n \in 0..MaxMembers :
          script = [NoScript EXCEPT !.pc = "write_slaves", !.slave_hosts = [k \in 1..n |-> k]]

NextScript == configure_master_script

SpecScript == InitScript /\ [][NextScript]_vars

\* ------------------------------------------------ launches side by side
\* Two processes run `flintrock launch X` at the same time against the one
\* provider.  Each follows launch_ec2 from the existence check to the tagging;
\* what follows (ClusterInfo, the fan-out, the master bring-up) sends nothing
\* to the provider.

\* The process p goes on as the record l.
Becomes(p, l) == launchers' = [launchers EXCEPT ![p] = l]

\* The process p ends with an exception or by sys.exit.
Dies(p, err) == Becomes(p, [launchers[p] EXCEPT !.pc = "exited", !.err = err])

\* lines 517-525: the existence check.
launcher_check(p) ==
    /\ launchers[p].pc = "check"
    /\ LET r == get_cluster_instances_ec2_result
       IN IF r = "ClusterNotFound" THEN Becomes(p, [launchers[p] EXCEPT !.pc = "sg_search"])
          ELSE IF r = "ok" THEN Dies(p, "Cluster already exists")
          ELSE Dies(p, r)
    /\ UNCHANGED << main, trail, ssh, agg, script >>

\* lines 401-412: search both groups.
launcher_sg_search(p) ==
    /\ launchers[p].pc = "sg_search"
    /\ Becomes(p, [launchers[p] EXCEPT
                     !.search_results = groups \cap {flintrock_group_name, cluster_group_name},
                     !.pc = "sg_create_base"])
    /\ UNCHANGED << main, trail, ssh, agg, script >>

\* lines 414-418 and 458-462: create the group when the search did not find
\* it; the provider rejects a name that exists.
launcher_sg_create(p, at, name, next_pc) ==
    /\ launchers[p].pc = at
    /\ IF name \in launchers[p].search_results
       THEN Becomes(p, [launchers[p] EXCEPT !.pc = next_pc]) /\ UNCHANGED groups
       ELSE IF name \in groups
       THEN Dies(p, "InvalidGroup.Duplicate") /\ UNCHANGED groups
       ELSE groups' = groups \cup {name} /\ Becomes(p, [launchers[p] EXCEPT !.pc = next_pc])
    /\ UNCHANGED << vms, rules, cmd, pc, args, outcome, out, locals, trail, ssh, agg, script >>

\* lines 449-455 and 487-493: one iteration of a loop over rules.
launcher_sg_auth(p, at, group, rule_list, next_pc) ==
    /\ launchers[p].pc = at
    /\ LET l == launchers[p]
           rule == rule_list[l.rule_i]
       IN \E response \in AuthorizeResponses(group, rule) :
             /\ IF response = "ok" THEN authorize(group, rule) ELSE UNCHANGED rules
             /\ IF response = "ok" \/ Swallowed(response)
                THEN IF l.rule_i < Len(rule_list)
                     THEN Becomes(p, [l EXCEPT !.rule_i = @ + 1])
                     ELSE Becomes(p, [l EXCEPT !.rule_i = 1, !.pc = next_pc])
                ELSE Dies(p, response)
    /\ UNCHANGED << vms, groups, cmd, pc, args, outcome, out, locals, trail, ssh, agg,
                    script >>

\* lines 537-549: run_instances.
launcher_run_instances(p) ==
    /\ launchers[p].pc = "run"
    /\ Cardinality({ i \in DOMAIN vms : vms[i].state = "absent" }) >= launchers[p].num_slaves + 1
    /\ LET ids == NewIds(launchers[p].num_slaves + 1)
       IN /\ vms' = [i \in DOMAIN vms |->
                        IF i \in Range(ids) THEN [state |-> "pending", role |-> "none"]
                        ELSE vms[i]]
          /\ Becomes(p, [launchers[p] EXCEPT
                           !.instances = [k \in DOMAIN ids |->
                                             [id |-> ids[k], state |-> "pending", dns |-> 0]],
                           !.pc = "wait"])
    /\ UNCHANGED << groups, rules, cmd, pc, args, outcome, out, locals, trail, ssh, agg,
                    script >>

\* lines 555-564: one iteration of the wait for the reservation to run.
launcher_wait(p) ==
    /\ launchers[p].pc = "wait"
    /\ LET l == launchers[p]
       IN IF NotYet(l.instances, "running") = {}
          THEN Becomes(p, [l EXCEPT !.pc = "tag_master"])
          ELSE LET k == Min(NotYet(l.instances, "running"))
               IN Becomes(p, [l EXCEPT !.instances[k] = update(@)])
    /\ UNCHANGED << main, trail, ssh, agg, script >>

\* lines 565-572: the first instance of the reservation is tagged master.
launcher_tag_master(p) ==
    /\ launchers[p].pc = "tag_master"
    /\ create_tags({ Head(launchers[p].instances).id }, "master")
    /\ Becomes(p, [launchers[p] EXCEPT !.pc = "tag_slaves"])
    /\ UNCHANGED << groups, rules, cmd, pc, args, outcome, out, locals, trail, ssh, agg,
                    script >>

\* lines 573-578: the other instances are tagged slave.
launcher_tag_slaves(p) ==
    /\ launchers[p].pc = "tag_slaves"
    /\ LET resource_ids == { h.id : h \in Range(Tail(launchers[p].instances)) }
       IN \E response \in CreateTagsResponses(resource_ids) :
             IF response = "ok"
             THEN /\ create_tags(resource_ids, "slave")
                  /\ Becomes(p, [launchers[p] EXCEPT !.pc = "provision"])
             ELSE Dies(p, response) /\ UNCHANGED vms
    /\ UNCHANGED << groups, rules, cmd, pc, args, outcome, out, locals, trail, ssh, agg,
                    script >>

launch_ec2_concurrently(p) ==
    \/ launcher_check(p)
    \/ launcher_sg_search(p)
    \/ launcher_sg_create(p, "sg_create_base", flintrock_group_name, "sg_auth_client")
    \/ launcher_sg_auth(p, "sg_auth_client", flintrock_group_name,
                        client_rules(launchers[p].client_ip), "sg_create_cluster")
    \/ launcher_sg_create(p, "sg_create_cluster", cluster_group_name, "sg_auth_cluster")
    \/ launcher_sg_auth(p, "sg_auth_cluster", cluster_group_name, cluster_rules, "run")
    \/ launcher_run_instances(p)
    \/ launcher_wait(p)
    \/ launcher_tag_master(p)
    \/ launcher_tag_slaves(p)

InitConcurrent ==
    /\ InitMain
    /\ trail = NoTrail
    /\ ssh = NoSSH
    /\ agg = NoAgg
    /\ script = NoScript
    /\ \E num_slaves \in [Launchers -> 0..MaxSlaves], ip \in [Launchers -> ClientIPs] :
          launchers = [p \in Launchers |->
                          [NoLauncher EXCEPT !.pc = "check", !.num_slaves = num_slaves[p],
                                             !.client_ip = ip[p]]]

NextConcurrent ==
    \/ \E p \in Launchers : launch_ec2_concurrently(p)
    \/ \E i \in 1..MaxId : vm_progress(i)

SpecConcurrent == InitConcurrent /\ [][NextConcurrent]_vars

\* The order of the steps of provision_ec2_node: a step and the step that may
\* follow it.
ProvisionOrder ==
    { << "connect", "keys" >>, << "keys", "java" >>,
      << "java", "java_install" >>, << "java", "install" >>, << "java", "done" >>,
      << "java_install", "install" >>, << "java_install", "done" >>,
      << "install", "configure" >>,
      << "configure", "install" >>, << "configure", "done" >> }

\* The task went from t to u by completing its current step, on a node with
\* the given modules.
ProvisionStep(t, u, modules) ==
    /\ ~ t.failed /\ ~ u.failed
    /\ << t.pc, u.pc >> \in ProvisionOrder
    /\ u.m = (IF t.pc = "configure" THEN t.m + 1 ELSE t.m)
    /\ u.pc = "install" => u.m \in DOMAIN modules
    /\ u.pc = "done" => u.m = Len(modules) + 1

\* The task's current step failed: the task stays there.
ProvisionStops(t, u) ==
    /\ ~ t.failed /\ t.pc # "done"
    /\ u.failed /\ u.pc = t.pc /\ u.m = t.m

ProvisionSequential ==
    (cmd = "launch" /\ cmd' = "launch")
        => /\ \A k \in DOMAIN tasks :
                 \/ tasks'[k] = tasks[k]
                 \/ ProvisionStep(tasks[k], tasks'[k], args.modules)
                 \/ ProvisionStops(tasks[k], tasks'[k])
           /\ tasks = << >> =>
                 \A k \in DOMAIN tasks' : tasks'[k].pc = "connect" /\ tasks'[k].m = 1
                                           /\ ~ tasks'[k].failed

\* C24: within one provision_ec2_node task the steps follow one another in
\* this order: SSH session, key pair, Java detection (and installation when
\* JAVA_HOME is empty), then for each module in order install and configure;
\* a failing step stops the task, no later step of that node runs.
C24_ProvisionStepsInOrder == [][ProvisionSequential]_vars

C24_Witness ==
    /\ cmd = "launch" /\ args.modules # << >>
    /\ \E k \in DOMAIN tasks : tasks[k].failed /\ tasks[k].pc = "install"
    /\ \E k \in DOMAIN tasks : ~ tasks[k].failed /\ tasks[k].pc = "done" /\ tasks[k].m = 2

\* The fan-out holds one task for each node, and no node twice.
OneTaskPerNode ==
    tasks # << >> =>
        /\ DOMAIN tasks = DOMAIN instances
        /\ \A j, k \in DOMAIN instances : instances[j].id = instances[k].id => j = k

\* A task's session is open only while the task is inside its with block.
TaskSessionsClosed ==
    \A k \in DOMAIN tasks :
        /\ Terminal(tasks[k]) => tasks[k].session # "open"
        /\ tasks[k].pc = "connect" => tasks[k].session = "none"
        /\ tasks[k].pc = "done" => tasks[k].session = "closed"

\* The master bring-up's session exists only once every task has ended, and
\* does not outlive the main thread.
MasterSessionAfterTasks ==
    /\ master_ssh_client # "none" =>
          /\ tasks # << >> /\ AllDone
          /\ \A k \in DOMAIN tasks : tasks[k].session = "closed"
    /\ pc = "exited" => master_ssh_client # "open"

\* C25: the fan-out has exactly one task per node; a task's SSH session is
\* opened by that task and closed when the task ends, by success or by
\* failure; the master bring-up uses a session of its own, opened only after
\* every task of the fan-out has ended.
C25_SessionsBelongToTasks ==
    cmd \in { "launch", "start" } =>
        OneTaskPerNode /\ TaskSessionsClosed /\ MasterSessionAfterTasks

C25_Witness ==
    /\ cmd = "launch" /\ pc = "configure_master_end"
    /\ master_ssh_client = "open"
    /\ Len(tasks) >= 2
    /\ \A k \in DOMAIN tasks : tasks[k].session = "closed"

\* The steps of configure_master's script, in the order the claim gives.
ScriptOrder ==
    { << "write_slaves", "start_master" >>, << "start_master", "poll" >>,
      << "poll", "poll" >>, << "poll", "start_slaves" >>, << "start_slaves", "returned" >> }

ScriptStepsInOrder ==
    \/ << script.pc, script'.pc >> \in ScriptOrder
    \/ script.pc \in { "write_slaves", "start_master", "start_slaves" } /\ script'.pc = "raised"

PollLeftOnlyOn200 ==
    (script.pc = "poll" /\ script'.pc # "poll")
        => /\ script.log # << >>
           /\ script.log[Len(script.log)] = 200
           /\ script'.pc = "start_slaves"

StartSlavesAfter200 ==
    script.pc \in { "start_slaves", "returned" } \/ script.slaves = "started"
        => /\ \E k \in DOMAIN script.log : script.log[k] = 200
           /\ script.master = "started"
           /\ script.slaves_file = script.slave_hosts

\* C26: configure_master writes the slaves file, runs start-master, polls the
\* master UI until it answers 200, then runs start-slaves; start-slaves never
\* runs before a 200 was observed, and the poll is left on a 200 only: while
\* the answers are anything else the script keeps polling.
C26_ConfigureMasterOrder ==
    /\ [][ScriptStepsInOrder /\ PollLeftOnlyOn200]_vars
    /\ [](StartSlavesAfter200)

C26_Witness ==
    /\ script.pc = "returned" /\ script.slaves = "started"
    /\ script.log = << 0, 503, 200 >>
    /\ Len(script.slave_hosts) = 2

\* The master bring-up of the command has begun.
MasterBringUpBegun ==
    \/ pc \in { "configure_master", "configure_master_end", "health_check" }
    \/ master_ssh_client # "none"
    \/ \E m \in DOMAIN cm : cm[m] \in { "running", "done", "failed" }
    \/ \E m \in DOMAIN hc : hc[m] \in { "ok", "failed" }

\* C27: start builds its ClusterInfo with no key pair, and its tasks only
\* connect and run Module.configure: no install, no key pair generated, no key
\* written to a node; the master bring-up begins only after every task of the
\* fan-out has completed.
C27_StartOnlyConfigures ==
    cmd = "start" =>
        /\ cluster_info.ssh_key_pair # "generated"
        /\ cluster_info.built => cluster_info.ssh_key_pair = "None"
        /\ \A k \in DOMAIN tasks : tasks[k].pc \in { "connect", "configure", "done" }
        /\ MasterBringUpBegun =>
              /\ tasks # << >>
              /\ \A k \in DOMAIN tasks : tasks[k].pc = "done" /\ ~ tasks[k].failed

C27_Witness ==
    /\ cmd = "start" /\ pc = "health_check"
    /\ cluster_info.built /\ cluster_info.ssh_key_pair = "None"
    /\ Len(tasks) >= 2
    /\ \A k \in DOMAIN tasks : tasks[k].pc = "done" /\ tasks[k].m = 2
    /\ cm = << "done" >>

\* start has looked the cluster up, has sent no request yet, and some member
\* was found in a state other than stopped.
StartPreconditionFails ==
    /\ cmd = "start" /\ pc = "start_instances" /\ inst_i = 1
    /\ \E k \in DOMAIN instances : instances[k].state \in { "running", "pending", "stopping" }

\* C28: when the cluster exists but some member is running, pending or
\* stopping, start sends no start request to any member and goes no further
\* (no wait, no reconfiguration, no restart of services): it can only end.
C28_StartOnlyOnStoppedCluster ==
    [][StartPreconditionFails => (inst_i' = 1 /\ pc' \in { "start_instances", "exited" })]_vars

\* C29: whenever the provider lists at least one instance of the cluster,
\* every listed member carries a role tag and exactly one is tagged master;
\* also while a launch is in progress and after a launch that failed or was
\* interrupted between run_instances and the tagging.
C29_MembersAlwaysClassified ==
    Listed # {} =>
        /\ \A i \in Listed : vms[i].role \in { "master", "slave" }
        /\ Cardinality({ i \in Listed : vms[i].role = "master" }) = 1

\* The launch processes that have created instances.
Creators == { p \in Launchers : launchers[p].instances # << >> }

\* C30: of two launches of one cluster name that run at the same time, at most
\* one passes the existence check and creates instances: the cluster never
\* has more members than the num_slaves + 1 of the launch that created them,
\* and never two masters.
C30_OneLaunchCreates ==
    /\ Cardinality(Creators) <= 1
    /\ \A p \in Creators : Cardinality(Listed) <= launchers[p].num_slaves + 1
    /\ Cardinality({ i \in Listed : vms[i].role = "master" }) <= 1

\* The errors a racing invocation can cause: a group or a rule that the other
\* invocation created first.
RaceErrors == { "InvalidGroup.Duplicate", "InvalidPermission.Duplicate" }

\* C31: two invocations of get_or_create_ec2_security_groups that run at
\* the same time (two launches sharing the base group) both complete in every
\* interleaving: neither ends on a rule or on a group the other one created
\* first, and the base group exists once they are through.
C31_ConcurrentSecurityGroupsSucceed ==
    \A p \in Launchers :
        /\ launchers[p].err \notin RaceErrors
        /\ launchers[p].pc \in { "sg_auth_client", "sg_create_cluster", "sg_auth_cluster",
                                 "run", "wait", "tag_master", "tag_slaves", "provision" }
              => flintrock_group_name \in groups

\* Every instance the provider still lists for the cluster is terminated: what
\* a destroy leaves until the provider has reaped the instances.
TerminatedStillListed ==
    /\ Listed # {}
    /\ \A i \in Listed : vms[i].state = "terminated"

\* The existence check of launch refuses the cluster name.
RefusedAsExisting == outcome'.code = 1 /\ outcome'.msg = "Cluster already exists"

\* launch finds the cluster group that an earlier cluster of the name left
\* behind and goes on with it: no group is created.
ReusesClusterGroup ==
    (sg_create_cluster /\ cluster_group_name \in groups)
        => groups' = groups /\ pc' = "sg_auth_cluster"

\* C32: the existence test of launch looks at group membership only, not at
\* the instances' state: while the provider still lists terminated instances
\* of the cluster, launch of the name is refused with "Cluster already
\* exists"; once none is listed launch proceeds, and it reuses the cluster
\* security group that destroy left in place.
C32_ExistenceIsMembership ==
    /\ [][(TerminatedStillListed /\ launch_ec2_check) => RefusedAsExisting]_vars
    /\ [][(Listed = {} /\ launch_ec2_check) => pc' = "sg_search"]_vars
    /\ [][ReusesClusterGroup]_vars

====
